---------------------------- MODULE Spec2Model ----------------------------
(***************************************************************************)
(* youtube-caption-extractor: the extraction pipeline as a state machine.  *)
(*                                                                         *)
(* Spec      the multi-client variant (src/unnamed/part_004, lines 1-834): *)
(*           getSubtitles / getVideoDetails over fetchVideoData (ordered   *)
(*           client profiles inside withRetry), getApiKey (cached dynamic  *)
(*           key with hardcoded fallback) and the caption-payload fetch.   *)
(* SpecDual  the dual-extraction variant (src/src/index.ts, lines 1-613):  *)
(*           getSubtitles / getVideoDetails over getVideoInfo (/player,    *)
(*           then /next on LOGIN_REQUIRED), the transcript engagement      *)
(*           panel (/get_transcript) and the caption-track fallback.       *)
(* SpecKeys  concurrent getApiKey calls of the multi-client variant over   *)
(*           the shared credential cache.                                  *)
(* SpecPure  the pure functions of the pipeline (track selection, caption  *)
(*           XML parsing, transcript segments) applied to drawn inputs.    *)
(***************************************************************************)
EXTENDS Integers, Sequences, FiniteSets, TLC

(***************************************************************************)
(* Bounds of the model (not program constants).                            *)
(***************************************************************************)
\* number of clock steps Date.now() may advance over a behaviour
MaxTicks == 2

(***************************************************************************)
(* Program constants.                                                      *)
(***************************************************************************)
CACHE_DURATION == 30 * 60 * 1000
INITIAL_DELAY == 1000
\* BACKOFF_FACTOR is 1.5, kept as the fraction BACKOFF_NUM / BACKOFF_DEN
BACKOFF_NUM == 3
BACKOFF_DEN == 2
\* Object.keys(playerData).length > 5
RETAIN_KEYS == 5
FALLBACK_INNERTUBE_API_KEY == "AIzaSy_fallback"

MAX_RETRIES(serverless) == IF serverless THEN 2 ELSE 3

TIMEOUTS(serverless) ==
  [API_KEY_FETCH  |-> IF serverless THEN 8000 ELSE 10000,
   PLAYER_REQUEST |-> IF serverless THEN 15000 ELSE 20000,
   SUBTITLE_FETCH |-> IF serverless THEN 10000 ELSE 15000]

\* faulty variant: one order for every environment
clientTypes_OneOrder(serverless) == <<"ANDROID", "WEB", "IOS">>

\* the ordered client profiles of one pass
clientTypes(serverless) ==
  IF serverless THEN <<"WEB", "ANDROID", "IOS">>
                ELSE <<"ANDROID", "WEB", "IOS">>

(***************************************************************************)
(* Optional values: null/undefined is the empty sequence, a present value  *)
(* x is <<x>>.                                                             *)
(***************************************************************************)
Null == <<>>
Some(x) == <<x>>
IsNull(o) == o = <<>>
Val(o) == o[1]

Pow(b, e) == IF e = 0 THEN 1 ELSE
             IF e = 1 THEN b ELSE
             IF e = 2 THEN b * b ELSE
             IF e = 3 THEN b * b * b ELSE b * b * b * b

\* faulty variant: the same wait before every attempt
RetryDelay_Fixed(attempt) == INITIAL_DELAY

\* RETRY_CONFIG.INITIAL_DELAY * Math.pow(RETRY_CONFIG.BACKOFF_FACTOR, attempt - 1)
RetryDelay(attempt) ==
  (INITIAL_DELAY * Pow(BACKOFF_NUM, attempt - 1)) \div Pow(BACKOFF_DEN, attempt - 1)

(***************************************************************************)
(* Upstream data.  A vssId and a language code are sequences of            *)
(* characters, so that equality and pattern matching are computed.         *)
(***************************************************************************)
Langs == { <<"e", "n">> }

Track(vss, url) == [vssId |-> vss, baseUrl |-> url]

\* the captionTracks lists the upstream may serve
TrackLists ==
  { <<>>,
    << Track(<<"a", ".", "e", "n">>, "u1") >>,
    << Track(<<".", "f", "r">>, "u1"), Track(<<"a", ".", "e", "n">>, "u2"),
       Track(<<".", "e", "n">>, "u3") >>,
    << Track(<<".", "e", "n">>, "") >> }

\* playerData.videoDetails
VideoDetailsOpts ==
  { Null,
    Some([title |-> "", shortDescription |-> ""]),
    Some([title |-> "T1", shortDescription |-> "D1"]) }

\* playerData.streamingData: absent, without text formats, or with one text
\* format (languageCode "en")
StreamingOpts == { Null, Some(<<>>), Some(<< [url |-> "u9", languageCode |-> <<"e", "n">>] >>) }

\* number of top-level keys of playerData besides playabilityStatus,
\* captions, videoDetails and streamingData
OtherKeyCounts == { RETAIN_KEYS - 1, RETAIN_KEYS }

\* a parsed player response body; status is playabilityStatus.status, where
\* OK stands for every status other than ERROR (they take the same branches
\* of this variant)
AllPayloads ==
  [ status        : {"OK", "ERROR"},
    captions      : {Null} \cup { Some(t) : t \in TrackLists },
    videoDetails  : VideoDetailsOpts,
    streamingData : StreamingOpts,
    nOther        : OtherKeyCounts ]

HasData(p) ==
  ~(p.captions = <<>> /\ p.videoDetails = <<>> /\ p.streamingData = <<>>)

\* the bodies the upstream serves: the key count is varied on the bodies
\* without captions, videoDetails and streamingData, where it decides
\* something; the others always have RETAIN_KEYS - 1 further keys
Payloads == { p \in AllPayloads : HasData(p) => p.nOther = RETAIN_KEYS - 1 }

\* Object.keys(playerData).length
KeyCount(p) ==
  1 + p.nOther
    + (IF IsNull(p.captions) THEN 0 ELSE 1)
    + (IF IsNull(p.videoDetails) THEN 0 ELSE 1)
    + (IF IsNull(p.streamingData) THEN 0 ELSE 1)


(***************************************************************************)
(* Raw behaviour of the network for one outbound request: it never         *)
(* answers ("hang"), fails at the transport ("neterr"), or answers with a  *)
(* response (ok = status 2xx) carrying a body.                             *)
(***************************************************************************)
Hang(b) == [kind |-> "hang", ok |-> FALSE, body |-> b]
NetErr(b) == [kind |-> "neterr", ok |-> FALSE, body |-> b]
Resp(isOk, b) == [kind |-> "response", ok |-> isOk, body |-> b]

DynamicKeys == {"k1"}

\* sw.js_data bodies: not JSPB, JSPB without a key, JSPB with a key
KeyBodies ==
  { [jspb |-> FALSE, key |-> Null], [jspb |-> TRUE, key |-> Null] }
    \cup { [jspb |-> TRUE, key |-> Some(k)] : k \in DynamicKeys }

KeyNet ==
  { Hang([jspb |-> FALSE, key |-> Null]), NetErr([jspb |-> FALSE, key |-> Null]),
    Resp(FALSE, [jspb |-> FALSE, key |-> Null]) }
    \cup { Resp(TRUE, b) : b \in KeyBodies }

\* player bodies: Null is a body that is not a JSON object
PlayerNet ==
  { Hang(Null), NetErr(Null), Resp(FALSE, Null), Resp(TRUE, Null) }
    \cup { Resp(TRUE, Some(p)) : p \in Payloads }

(***************************************************************************)
(* fetchWithTimeout: the request races an abort timer of `timeout` ms.     *)
(* A request that never answers is aborted and becomes an error; a         *)
(* transport error is rethrown; a response is returned whatever its status.*)
(***************************************************************************)
fetchWithTimeout(raw, timeout) ==
  IF raw.kind = "hang"
    THEN [threw |-> TRUE, error |-> "Request timeout", timeout |-> Some(timeout), response |-> raw]
  ELSE IF raw.kind = "neterr"
    THEN [threw |-> TRUE, error |-> "network error", timeout |-> Some(timeout), response |-> raw]
  ELSE [threw |-> FALSE, error |-> "", timeout |-> Some(timeout), response |-> raw]

(***************************************************************************)
(* Errors.  `${context} failed after ${n} attempts: ${lastError.message}`  *)
(* is kept structured: the context, the attempt count, the message of the  *)
(* last error and the client profiles that message names.                  *)
(***************************************************************************)
NoError == [context |-> "", attempts |-> 0, message |-> "", clients |-> <<>>]
PlainError(msg) == [context |-> "", attempts |-> 0, message |-> msg, clients |-> <<>>]

\* faulty variant: the message names the last client only
AllClientsError_LastOnly(serverless) ==
  [context |-> "", attempts |-> 0, message |-> "All clients failed to retrieve video data",
   clients |-> << clientTypes(serverless)[Len(clientTypes(serverless))] >>]

\* `All clients (${clientTypes.join(', ')}) failed to retrieve video data`
AllClientsError(serverless) ==
  [context |-> "", attempts |-> 0, message |-> "All clients failed to retrieve video data",
   clients |-> clientTypes(serverless)]

\* faulty variant: the context is left out of the message
RetryError_NoContext(context, maxRetries, lastError) ==
  [context |-> "", attempts |-> maxRetries + 1,
   message |-> lastError.message, clients |-> lastError.clients]

\* the error withRetry throws after its loop
RetryError(context, maxRetries, lastError) ==
  [context |-> context, attempts |-> maxRetries + 1,
   message |-> lastError.message, clients |-> lastError.clients]

\* faulty variant: one attempt short
RetryDecision_OffByOne(attempt, maxRetries) ==
  IF attempt < maxRetries THEN "wait" ELSE "throw"

\* withRetry's catch block at `attempt`: wait and go round again, or leave the loop
RetryDecision(attempt, maxRetries) ==
  IF attempt <= maxRetries THEN "wait" ELSE "throw"

(***************************************************************************)
(* The operation of getDynamicApiKey's withRetry, given the network's      *)
(* behaviour: throws, or returns the key of the JSPB body.                 *)
(***************************************************************************)
KeyOperation(raw, serverless) ==
  LET r == fetchWithTimeout(raw, TIMEOUTS(serverless).API_KEY_FETCH) IN
  IF r.threw THEN [threw |-> TRUE, error |-> PlainError(r.error), key |-> ""]
  ELSE IF ~r.response.ok
    THEN [threw |-> TRUE, error |-> PlainError("Failed to fetch dynamic API key"), key |-> ""]
  ELSE IF ~r.response.body.jspb
    THEN [threw |-> TRUE, error |-> PlainError("Invalid JSPB response format"), key |-> ""]
  ELSE IF IsNull(r.response.body.key)
    THEN [threw |-> TRUE, error |-> PlainError("API key not found in response"), key |-> ""]
  ELSE [threw |-> FALSE, error |-> NoError, key |-> Val(r.response.body.key)]

\* faulty variant: a key aged exactly CACHE_DURATION still counts as fresh
CacheHit_Inclusive(key, stamp, t) == ~IsNull(key) /\ t - stamp <= CACHE_DURATION

\* if (cachedApiKey && now - cacheTimestamp < CACHE_DURATION)
CacheHit(key, stamp, t) == ~IsNull(key) /\ t - stamp < CACHE_DURATION

(***************************************************************************)
(* fetchVideoDataWithClient after getApiKey: the player request and the    *)
(* checks on its response.                                                 *)
(***************************************************************************)
NoPayload == CHOOSE p \in Payloads : TRUE

\* faulty variant: playabilityStatus.status is not looked at
fetchVideoDataWithClient_NoStatusCheck(raw, serverless) ==
  LET r == fetchWithTimeout(raw, TIMEOUTS(serverless).PLAYER_REQUEST) IN
  IF r.threw THEN [threw |-> TRUE, error |-> PlainError(r.error), playerData |-> NoPayload]
  ELSE IF ~r.response.ok
    THEN [threw |-> TRUE, error |-> PlainError("Player endpoint failed"), playerData |-> NoPayload]
  ELSE IF IsNull(r.response.body)
    THEN [threw |-> TRUE, error |-> PlainError("invalid JSON"), playerData |-> NoPayload]
  ELSE [threw |-> FALSE, error |-> NoError, playerData |-> Val(r.response.body)]

fetchVideoDataWithClient(raw, serverless) ==
  LET r == fetchWithTimeout(raw, TIMEOUTS(serverless).PLAYER_REQUEST) IN
  IF r.threw THEN [threw |-> TRUE, error |-> PlainError(r.error), playerData |-> NoPayload]
  ELSE IF ~r.response.ok
    THEN [threw |-> TRUE, error |-> PlainError("Player endpoint failed"), playerData |-> NoPayload]
  ELSE IF IsNull(r.response.body)
    THEN [threw |-> TRUE, error |-> PlainError("invalid JSON"), playerData |-> NoPayload]
  ELSE IF Val(r.response.body).status = "ERROR"
    THEN [threw |-> TRUE, error |-> PlainError("Video not available"), playerData |-> NoPayload]
  ELSE [threw |-> FALSE, error |-> NoError, playerData |-> Val(r.response.body)]

\* Must have either captions or videoDetails or streamingData
isValidPlayerResponse(playerData) ==
  \/ ~IsNull(playerData.captions)
  \/ ~IsNull(playerData.videoDetails)
  \/ ~IsNull(playerData.streamingData)

\* faulty variant: every response is stored
Retain_Always(lastValidResponse, playerData) == Some(playerData)

\* if (playerData && Object.keys(playerData).length > 5) lastValidResponse = playerData
Retain(lastValidResponse, playerData) ==
  IF KeyCount(playerData) > RETAIN_KEYS THEN Some(playerData) ELSE lastValidResponse

\* what the loop body of fetchVideoData makes of one client's attempt
Classify(r) ==
  IF r.threw THEN "failed"
  ELSE IF isValidPlayerResponse(r.playerData) THEN "valid"
  ELSE "insufficient"

(***************************************************************************)
(* fetchCaptionTracks after fetchVideoData: the caption tracks of the      *)
(* player response, or the text formats of its adaptive streams.           *)
(***************************************************************************)
FormatTrack(f) ==
  [vssId |-> IF f.languageCode = <<>> THEN <<"u", "n", "k", "n", "o", "w", "n">> ELSE f.languageCode,
   baseUrl |-> f.url]

ExtractTracks(playerData) ==
  LET captionTracks == IF IsNull(playerData.captions) THEN <<>> ELSE Val(playerData.captions)
      captionFormats == IF IsNull(playerData.streamingData) THEN <<>>
                        ELSE Val(playerData.streamingData) IN
  IF Len(captionTracks) = 0 /\ Len(captionFormats) > 0
    THEN [i \in 1..Len(captionFormats) |-> FormatTrack(captionFormats[i])]
    ELSE captionTracks

(***************************************************************************)
(* Track selection of getSubtitles / getVideoDetails.                      *)
(***************************************************************************)
\* Array.prototype.find: the first element satisfying Test, or undefined
Find(seq, Test(_)) ==
  LET hits == { i \in 1..Len(seq) : Test(seq[i]) } IN
  IF hits = {} THEN Null
  ELSE Some(seq[CHOOSE i \in hits : \A j \in hits : i <= j])

\* vssId.match(`.${lang}`): the argument is a regular expression, whose
\* leading dot matches any one character
RegexDotMatch(vssId, l) ==
  \E i \in 1..Len(vssId) :
     /\ i + Len(l) <= Len(vssId)
     /\ SubSeq(vssId, i + 1, i + Len(l)) = l

\* faulty variant: the auto-generated track is looked for first
SelectTrack_AutoFirst(captionTracks, l) ==
  LET manual(t) == t.vssId = <<".">> \o l
      auto(t) == t.vssId = <<"a", ".">> \o l
      loose(t) == t.vssId # <<>> /\ RegexDotMatch(t.vssId, l)
      m1 == Find(captionTracks, manual)
      m2 == Find(captionTracks, auto) IN
  IF ~IsNull(m2) THEN m2
  ELSE IF ~IsNull(m1) THEN m1
  ELSE Find(captionTracks, loose)

SelectTrack(captionTracks, l) ==
  LET manual(t) == t.vssId = <<".">> \o l
      auto(t) == t.vssId = <<"a", ".">> \o l
      loose(t) == t.vssId # <<>> /\ RegexDotMatch(t.vssId, l)
      m1 == Find(captionTracks, manual)
      m2 == Find(captionTracks, auto) IN
  IF ~IsNull(m1) THEN m1
  ELSE IF ~IsNull(m2) THEN m2
  ELSE Find(captionTracks, loose)

(***************************************************************************)
(* The caption payload, as the lines between the </text> delimiters: the   *)
(* start and dur attributes a line carries (or not) and its text.          *)
(***************************************************************************)
Line(s, d, t) == [start |-> s, dur |-> d, text |-> t]

Transcripts ==
  { <<>>,
    << Line(Some(0), Some(2), <<"a">>) >>,
    << Line(Some(0), Some(2), <<"a">>), Line(Null, Some(1), <<"x">>),
       Line(Some(3), Some(1), <<"b">>) >> }

SubNet ==
  { Hang(<<>>), NetErr(<<>>), Resp(FALSE, <<>>) } \cup { Resp(TRUE, t) : t \in Transcripts }

(***************************************************************************)
(* The text of a cue.  The body of a line (what follows its opening <text> *)
(* tag) is a sequence of tokens: characters, the tags <b> and </b>, the    *)
(* entities &amp; &lt; &gt; and the line break.                             *)
(***************************************************************************)
TagTokens == { "<b>", "</b>" }

\* line.replace(/<text.+>/, ''): the match begins at the opening tag and,
\* `.+` being greedy and not crossing a line break, ends at the last `>` of
\* that physical line, which is the end of the last tag of the body before
\* its first line break, or of the opening tag when there is none
RemoveOpenTag(body) ==
  LET breaks == { i \in 1..Len(body) : body[i] = "\n" }
      lineEnd == IF breaks = {} THEN Len(body) + 1
                 ELSE CHOOSE i \in breaks : \A j \in breaks : i <= j
      tags == { i \in 1..(lineEnd - 1) : body[i] \in TagTokens } IN
  IF tags = {} THEN body
  ELSE SubSeq(body, (CHOOSE i \in tags : \A j \in tags : j <= i) + 1, Len(body))

\* .replace(/&amp;/gi, '&')
UnescapeAmp(text) == [i \in 1..Len(text) |-> IF text[i] = "&amp;" THEN "&" ELSE text[i]]

\* .replace(/<\/?[^>]+(>|$)/g, ''): the tags go
RemoveMarkup(text) ==
  LET F[i \in 0..Len(text)] ==
        IF i = 0 THEN <<>>
        ELSE IF text[i] \in TagTokens THEN F[i - 1] ELSE Append(F[i - 1], text[i]) IN
  F[Len(text)]

\* he.decode: an entity becomes its character
HeDecode(text) ==
  [i \in 1..Len(text) |-> IF text[i] = "&amp;" THEN "&"
                           ELSE IF text[i] = "&lt;" THEN "<"
                           ELSE IF text[i] = "&gt;" THEN ">"
                           ELSE text[i]]

\* striptags on the decoded text: what stands between a `<` and the next
\* `>`, both included, goes
StripDecodedTags(text) ==
  LET F[i \in 0..Len(text)] ==
        IF i = 0 THEN [out |-> <<>>, inTag |-> FALSE]
        ELSE IF F[i - 1].inTag
          THEN [out |-> F[i - 1].out, inTag |-> text[i] # ">"]
        ELSE IF text[i] = "<" THEN [out |-> F[i - 1].out, inTag |-> TRUE]
        ELSE IF text[i] \in TagTokens THEN F[i - 1]
        ELSE [out |-> Append(F[i - 1].out, text[i]), inTag |-> FALSE] IN
  F[Len(text)].out

\* htmlText, decodedText and text of one line
CueText(body) == StripDecodedTags(HeDecode(RemoveMarkup(UnescapeAmp(RemoveOpenTag(body)))))

\* faulty variant: the first line without start or dur ends the document
extractSubtitlesFromXML_Aborts(transcript) ==
  LET keep(line) == ~IsNull(line.start) /\ ~IsNull(line.dur)
      cue(line) == [start |-> Val(line.start), dur |-> Val(line.dur),
                    text |-> CueText(line.text)]
      F[i \in 0..Len(transcript)] ==
        IF i = 0 THEN [out |-> <<>>, stop |-> FALSE]
        ELSE IF F[i - 1].stop \/ ~keep(transcript[i]) THEN [out |-> F[i - 1].out, stop |-> TRUE]
        ELSE [out |-> Append(F[i - 1].out, cue(transcript[i])), stop |-> FALSE] IN
  F[Len(transcript)].out

\* a line without start or dur is skipped; the others become cues, in order
extractSubtitlesFromXML(transcript) ==
  LET keep(line) == ~IsNull(line.start) /\ ~IsNull(line.dur)
      cue(line) == [start |-> Val(line.start), dur |-> Val(line.dur),
                    text |-> CueText(line.text)] IN
  LET F[i \in 0..Len(transcript)] ==
        IF i = 0 THEN <<>>
        ELSE IF keep(transcript[i]) THEN Append(F[i - 1], cue(transcript[i]))
        ELSE F[i - 1] IN
  F[Len(transcript)]

\* the operation of the 'Subtitle fetch' withRetry
SubtitleOperation(raw, serverless) ==
  LET r == fetchWithTimeout(raw, TIMEOUTS(serverless).SUBTITLE_FETCH) IN
  IF r.threw THEN [threw |-> TRUE, error |-> PlainError(r.error), lines |-> <<>>]
  ELSE IF ~r.response.ok
    THEN [threw |-> TRUE, error |-> PlainError("Failed to fetch subtitles"), lines |-> <<>>]
  ELSE [threw |-> FALSE, error |-> NoError, lines |-> extractSubtitlesFromXML(r.response.body)]


(***************************************************************************)
(* State.                                                                  *)
(*   isServerless    the environment flag read at module load              *)
(*   now             Date.now()                                            *)
(*   cachedApiKey, cacheTimestamp   the module-level credential cache      *)
(*   call            the frame of the public-API call in progress: its     *)
(*                   position (pc), its locals under their source names,   *)
(*                   and a record of what it has done (ops, log, net)      *)
(*   dual            the frame of the public-API call in progress of the   *)
(*                   dual-extraction variant                               *)
(*   keyCalls        the frames of concurrent getApiKey calls               *)
(*   pure            a pure function of the pipeline, its input and output  *)
(***************************************************************************)
VARIABLES isServerless, now, cachedApiKey, cacheTimestamp, call, dual, keyCalls, pure

vars == <<isServerless, now, cachedApiKey, cacheTimestamp, call, dual, keyCalls, pure>>

\* the clock advances in steps of half the cache duration
TickMs == CACHE_DURATION \div 2
ClockSteps == { 0, TickMs }

Entries == { "getSubtitles", "getVideoDetails" }

NoResult == [kind |-> "pending", title |-> "", description |-> "", subtitles |-> <<>>,
             error |-> NoError]

\* the record of an outbound request: what fetchWithTimeout was given and
\* what the network did (kind, ok: 2xx; for a player body: whether it parsed
\* as an object, its playabilityStatus.status and whether it has any of
\* captions, videoDetails, streamingData)
NoNet == [target |-> "", timeout |-> Null, kind |-> "", ok |-> FALSE, threw |-> FALSE,
          key |-> Null, parsed |-> FALSE, status |-> "", hasData |-> FALSE, keys |-> 0]

IdleCall ==
  [ pc |-> "idle", entry |-> "", lang |-> <<>>, phase |-> 0,
    attempt |-> [video |-> 0, key |-> 0, subtitle |-> 0],
    lastError |-> NoError,
    clientIdx |-> 0, lastValidResponse |-> Null, passLog |-> <<>>,
    now |-> 0, apiKey |-> Null, keyError |-> NoError,
    playerData |-> Null, title |-> "", description |-> "",
    captionTracks |-> <<>>, subtitle |-> Null,
    result |-> NoResult,
    \* operation invocations of the current withRetry of each stage
    ops |-> [video |-> 0, key |-> 0, subtitle |-> 0],
    delay |-> 0,
    net |-> NoNet ]

\* the record of an outbound request of the dual-extraction variant: the
\* endpoint, the timeout the code gave it (none: Null), what the network did
\* and whether the awaited promise settled; sent lists the endpoints the
\* call has requested so far
NoDualNet == [target |-> "", timeout |-> Null, kind |-> "", ok |-> FALSE,
              settled |-> FALSE, threw |-> FALSE]

IdleDual ==
  [ pc |-> "idle", entry |-> "", lang |-> <<>>,
    playerData |-> Null, nextData |-> Null,
    title |-> "", description |-> "",
    token |-> Null, subtitle |-> Null,
    caught |-> <<>>,
    result |-> NoResult,
    net |-> NoDualNet, sent |-> <<>> ]

\* number of concurrent getApiKey calls
NProcs == 2
Procs == 1..NProcs

\* the frame of one getApiKey call: the locals now and apiKey of
\* getDynamicApiKey, withRetry's attempt, what the call returned and from
\* where (cache, fetch, fallback), and whether it wrote the cache
IdleKeyCall ==
  [ pc |-> "idle", now |-> 0, attempt |-> 0, apiKey |-> Null,
    returned |-> Null, from |-> "", stored |-> FALSE ]

\* no pure function applied
IdlePure == [fn |-> "", input |-> <<>>, lang |-> <<>>, output |-> <<>>, done |-> FALSE]

Init ==
  /\ isServerless \in BOOLEAN
  /\ now = 0
  /\ cachedApiKey = Null
  /\ cacheTimestamp = 0
  /\ call = IdleCall
  /\ dual = IdleDual
  /\ keyCalls = [p \in Procs |-> IdleKeyCall]
  /\ pure = IdlePure

maxRetries == MAX_RETRIES(isServerless)

\* the outbound request just made, as fetchWithTimeout saw it
NetOf(target, timeout, raw, key) ==
  LET r == fetchWithTimeout(raw, timeout) IN
  [NoNet EXCEPT !.target = target, !.timeout = r.timeout, !.kind = raw.kind,
                 !.ok = raw.ok, !.threw = r.threw, !.key = key]

PlayerNetOf(timeout, raw, key) ==
  LET n == NetOf("player", timeout, raw, key) IN
  IF raw.kind = "response" /\ raw.ok /\ raw.body # <<>>
    THEN [n EXCEPT !.parsed = TRUE, !.status = raw.body[1].status,
                   !.hasData = HasData(raw.body[1]), !.keys = KeyCount(raw.body[1])]
    ELSE n

(***************************************************************************)
(* Continuations: the synchronous code that runs once an awaited step has  *)
(* settled, as functions from the frame to the frame.                      *)
(***************************************************************************)
\* a loop iteration of fetchVideoData's withRetry: the pass begins
StartPass(f) ==
  [f EXCEPT !.pc = "apikey", !.clientIdx = 1, !.lastValidResponse = Null,
            !.passLog = <<>>, !.ops.video = @ + 1]

\* faulty variant: one attempt counter shared by the stages
WithRetryStart_Shared(f, stage) ==
  LET a == f.attempt
      m == IF a.video >= a.key /\ a.video >= a.subtitle THEN a.video
           ELSE IF a.key >= a.subtitle THEN a.key ELSE a.subtitle IN
  [f EXCEPT !.attempt[stage] = IF m = 0 THEN 1 ELSE m, !.ops[stage] = 0]

\* withRetry is entered for `stage`: for (let attempt = 1; ...), nothing invoked yet
WithRetryStart(f, stage) ==
  [f EXCEPT !.attempt[stage] = 1, !.ops[stage] = 0]

\* fetchVideoData: withRetry runs the first pass
StartVideoFetch(f) ==
  StartPass(WithRetryStart([f EXCEPT !.playerData = Null], "video"))

Return(f, subtitles) ==
  [f EXCEPT !.pc = "done",
            !.result = [kind |-> "returned", title |-> f.title,
                        description |-> f.description, subtitles |-> subtitles,
                        error |-> NoError]]

Throw(f, e) ==
  [f EXCEPT !.pc = "done", !.result = [NoResult EXCEPT !.kind = "threw", !.error = e]]

\* faulty variant: an empty track list is an error
AfterTracks_ThrowsOnEmpty(f, tracks) ==
  IF Len(tracks) = 0 THEN Throw([f EXCEPT !.captionTracks = tracks], PlainError("No captions found"))
  ELSE
    LET subtitle == SelectTrack(tracks, f.lang)
        g == [f EXCEPT !.captionTracks = tracks, !.subtitle = subtitle] IN
    IF IsNull(subtitle) \/ Val(subtitle).baseUrl = "" THEN Return(g, <<>>)
    ELSE WithRetryStart([g EXCEPT !.pc = "subfetch"], "subtitle")

\* faulty variant: without tracks the bare empty list is returned, whatever
\* the entry point
AfterTracks_BareList(f, tracks) ==
  IF Len(tracks) = 0
    THEN Return([f EXCEPT !.captionTracks = tracks, !.title = "", !.description = ""], <<>>)
  ELSE
    LET subtitle == SelectTrack(tracks, f.lang)
        g == [f EXCEPT !.captionTracks = tracks, !.subtitle = subtitle] IN
    IF IsNull(subtitle) \/ Val(subtitle).baseUrl = "" THEN Return(g, <<>>)
    ELSE WithRetryStart([g EXCEPT !.pc = "subfetch"], "subtitle")

\* getSubtitles / getVideoDetails from the caption tracks on
AfterTracks(f, tracks) ==
  IF Len(tracks) = 0 THEN Return([f EXCEPT !.captionTracks = tracks], <<>>)
  ELSE
    LET subtitle == SelectTrack(tracks, f.lang)
        g == [f EXCEPT !.captionTracks = tracks, !.subtitle = subtitle] IN
    IF IsNull(subtitle) \/ Val(subtitle).baseUrl = "" THEN Return(g, <<>>)
    ELSE WithRetryStart([g EXCEPT !.pc = "subfetch"], "subtitle")

\* fetchVideoData returns playerData to its caller
VideoDataReturned(f, playerData) ==
  [f EXCEPT !.pc = "vdone", !.playerData = Some(playerData)]

\* the caller of fetchVideoData resumes with playerData; the locals of the
\* pass are gone
AfterVideoData(f) ==
  LET playerData == Val(f.playerData)
      g == [f EXCEPT !.clientIdx = 0, !.lastValidResponse = Null, !.passLog = <<>>,
                     !.attempt.video = 0, !.net = NoNet, !.playerData = Null] IN
  IF f.phase = 1
    THEN \* getVideoDetails: title and description, then fetchCaptionTracks
      LET vd == playerData.videoDetails
          title == IF IsNull(vd) \/ Val(vd).title = "" THEN "No title found"
                   ELSE Val(vd).title
          description == IF IsNull(vd) \/ Val(vd).shortDescription = ""
                         THEN "No description found" ELSE Val(vd).shortDescription IN
      StartVideoFetch([g EXCEPT !.phase = 2, !.title = title, !.description = description])
    ELSE AfterTracks(g, ExtractTracks(playerData))

\* the pass threw inside withRetry('Video data fetch with multi-client fallback')
PassThrew(f, e, serverless) ==
  IF RetryDecision(f.attempt.video, MAX_RETRIES(serverless)) = "wait"
    THEN [f EXCEPT !.pc = "vwait", !.lastError = e, !.delay = RetryDelay(f.attempt.video)]
    ELSE Throw([f EXCEPT !.lastError = e],
               RetryError("Video data fetch with multi-client fallback",
                          MAX_RETRIES(serverless), e))

\* faulty variant: a failed attempt drops the candidate
CandidateAfter_FailClears(lastValidResponse, r) ==
  IF r.threw THEN Null ELSE Retain(lastValidResponse, r.playerData)

\* lastValidResponse after one client's attempt: the catch block leaves it
\* alone, the try block stores the response if it is big enough
CandidateAfter(lastValidResponse, r) ==
  IF r.threw THEN lastValidResponse ELSE Retain(lastValidResponse, r.playerData)

\* faulty variant: a valid response does not end the pass
ReturnsNow_Never(r) == FALSE

\* if (isValidPlayerResponse(playerData)) return playerData
ReturnsNow(r) == ~r.threw /\ isValidPlayerResponse(r.playerData)

\* faulty variant: the last resort is not used
LastResort_Unused(last) == Null

\* after the loop: if (lastValidResponse) return lastValidResponse
LastResort(last) == last

\* the loop body of fetchVideoData once fetchVideoDataWithClient has settled
\* as r, and the code after the loop when this was the last client
AfterClient(f, r, serverless) ==
  LET clientType == clientTypes(serverless)[f.clientIdx]
      entry == [client |-> clientType, class |-> Classify(r),
                data |-> IF r.threw THEN Null ELSE Some(r.playerData),
                retained |-> ~r.threw /\ Retain(Null, r.playerData) # Null]
      last == CandidateAfter(f.lastValidResponse, r)
      g == [f EXCEPT !.passLog = Append(@, entry), !.lastValidResponse = last] IN
  IF ReturnsNow(r)
    THEN VideoDataReturned(g, r.playerData)
  ELSE IF f.clientIdx < Len(clientTypes(serverless))
    THEN [g EXCEPT !.pc = "apikey", !.clientIdx = @ + 1]
  ELSE IF ~IsNull(LastResort(last))
    THEN VideoDataReturned(g, Val(LastResort(last)))
  ELSE PassThrew(g, AllClientsError(serverless), serverless)

\* faulty variant: getApiKey lets the error of getDynamicApiKey through
getApiKeyCatch_Rethrows(f, e) == Throw([f EXCEPT !.keyError = e], e)

\* getApiKey's catch block: getDynamicApiKey threw e, the hardcoded key is
\* returned to fetchVideoDataWithClient
getApiKeyCatch(f, e) ==
  [f EXCEPT !.pc = "player", !.apiKey = Some(FALLBACK_INNERTUBE_API_KEY), !.keyError = e]

(***************************************************************************)
(* Actions: one per awaited step of the call.                              *)
(***************************************************************************)
\* getSubtitles({videoID, lang}) or getVideoDetails({videoID, lang}) is called
Call(e, l) ==
  /\ call.pc = "idle"
  /\ call' = StartVideoFetch([IdleCall EXCEPT !.entry = e, !.lang = l,
                                              !.phase = IF e = "getVideoDetails" THEN 1 ELSE 2])
  /\ UNCHANGED <<keyCalls, pure, dual, isServerless, now, cachedApiKey, cacheTimestamp>>

\* faulty variant: a cache hit hands out the hardcoded key
ReturnCached_Hardcoded(f, key, t) ==
  [f EXCEPT !.pc = "player", !.apiKey = Some(FALLBACK_INNERTUBE_API_KEY), !.now = t,
            !.net = NoNet]

\* return cachedApiKey
ReturnCached(f, key, t) ==
  [f EXCEPT !.pc = "player", !.apiKey = key, !.now = t, !.net = NoNet]

\* getApiKey -> getDynamicApiKey up to its withRetry: the cache check
KeyLookup ==
  /\ call.pc = "apikey"
  /\ \E dt \in ClockSteps :
       /\ now + dt <= MaxTicks * TickMs
       /\ now' = now + dt
  /\ call' = IF CacheHit(cachedApiKey, cacheTimestamp, now')
               THEN ReturnCached(call, cachedApiKey, now')
               ELSE WithRetryStart([call EXCEPT !.pc = "keyfetch", !.now = now',
                                                !.apiKey = Null, !.keyError = NoError,
                                                !.net = NoNet], "key")
  /\ UNCHANGED <<keyCalls, dual, isServerless, cachedApiKey, cacheTimestamp>>

GetDynamicApiKey == KeyLookup /\ UNCHANGED pure

\* faulty variant: the hardcoded key is cached when the fetch has failed
KeyFetched_CachesFallback(raw) ==
  /\ call.pc = "keyfetch"
  /\ LET r == KeyOperation(raw, isServerless)
           f == [call EXCEPT !.ops.key = @ + 1,
                             !.net = NetOf("sw.js_data", TIMEOUTS(isServerless).API_KEY_FETCH,
                                           raw, Null)]
       IN
       IF ~r.threw
         THEN /\ cachedApiKey' = Some(r.key)
              /\ cacheTimestamp' = call.now
              /\ call' = [f EXCEPT !.pc = "player", !.apiKey = Some(r.key)]
       ELSE IF RetryDecision(call.attempt.key, maxRetries) = "wait"
         THEN /\ call' = [f EXCEPT !.pc = "keywait", !.keyError = r.error,
                                   !.delay = RetryDelay(call.attempt.key)]
              /\ UNCHANGED <<cachedApiKey, cacheTimestamp>>
       ELSE   /\ call' = getApiKeyCatch(f, RetryError("Dynamic API key fetch",
                                                        maxRetries, r.error))
              /\ cachedApiKey' = Some(FALLBACK_INNERTUBE_API_KEY)
              /\ cacheTimestamp' = call.now
  /\ UNCHANGED <<keyCalls, dual, isServerless, now>>

\* one attempt of withRetry('Dynamic API key fetch'), up to the key being
\* cached, the wait before the next attempt, or getApiKey's fallback
KeyFetched(raw) ==
  /\ call.pc = "keyfetch"
  /\ LET r == KeyOperation(raw, isServerless)
           f == [call EXCEPT !.ops.key = @ + 1,
                             !.net = NetOf("sw.js_data", TIMEOUTS(isServerless).API_KEY_FETCH,
                                           raw, Null)]
       IN
       IF ~r.threw
         THEN /\ cachedApiKey' = Some(r.key)
              /\ cacheTimestamp' = call.now
              /\ call' = [f EXCEPT !.pc = "player", !.apiKey = Some(r.key)]
       ELSE IF RetryDecision(call.attempt.key, maxRetries) = "wait"
         THEN /\ call' = [f EXCEPT !.pc = "keywait", !.keyError = r.error,
                                   !.delay = RetryDelay(call.attempt.key)]
              /\ UNCHANGED <<cachedApiKey, cacheTimestamp>>
       ELSE   /\ call' = getApiKeyCatch(f, RetryError("Dynamic API key fetch",
                                                        maxRetries, r.error))
              /\ UNCHANGED <<cachedApiKey, cacheTimestamp>>
  /\ UNCHANGED <<keyCalls, dual, isServerless, now>>

KeyFetch == \E raw \in KeyNet : KeyFetched(raw) /\ UNCHANGED pure

\* the backoff wait of the key fetch is over: attempt++
KeyBackoff ==
  /\ call.pc = "keywait"
  /\ call' = [call EXCEPT !.pc = "keyfetch", !.attempt.key = @ + 1, !.delay = 0]
  /\ UNCHANGED <<keyCalls, pure, dual, isServerless, now, cachedApiKey, cacheTimestamp>>

\* the player request of the current client profile and everything
\* fetchVideoData and its callers do with its outcome
PlayerRequested(raw) ==
  /\ call.pc = "player"
  /\ LET r == fetchVideoDataWithClient(raw, isServerless)
           \* the locals of getApiKey are gone
           f == [call EXCEPT !.apiKey = Null, !.now = 0, !.keyError = NoError,
                             !.attempt.key = 0, !.ops.key = 0,
                             !.net = PlayerNetOf(TIMEOUTS(isServerless).PLAYER_REQUEST,
                                                 raw, call.apiKey)]
       IN call' = AfterClient(f, r, isServerless)
  /\ UNCHANGED <<keyCalls, dual, isServerless, now, cachedApiKey, cacheTimestamp>>

PlayerRequest == \E raw \in PlayerNet : PlayerRequested(raw) /\ UNCHANGED pure

\* fetchVideoData has returned: getVideoDetails takes title and description
\* and calls fetchCaptionTracks; fetchCaptionTracks extracts the tracks and
\* its caller selects one
VideoDataDone ==
  /\ call.pc = "vdone"
  /\ call' = AfterVideoData(call)
  /\ UNCHANGED <<keyCalls, pure, dual, isServerless, now, cachedApiKey, cacheTimestamp>>

\* the backoff wait of the video-data fetch is over: attempt++, next pass
VideoBackoff ==
  /\ call.pc = "vwait"
  /\ call' = StartPass([call EXCEPT !.attempt.video = @ + 1, !.delay = 0, !.net = NoNet])
  /\ UNCHANGED <<keyCalls, pure, dual, isServerless, now, cachedApiKey, cacheTimestamp>>

\* one attempt of withRetry('Subtitle fetch')
SubtitleFetched(raw) ==
  /\ call.pc = "subfetch"
  /\ LET r == SubtitleOperation(raw, isServerless)
           f == [call EXCEPT !.ops.subtitle = @ + 1,
                             !.net = NetOf("timedtext", TIMEOUTS(isServerless).SUBTITLE_FETCH,
                                           raw, Null)]
       IN
       IF ~r.threw THEN call' = Return(f, r.lines)
       ELSE IF RetryDecision(call.attempt.subtitle, maxRetries) = "wait"
         THEN call' = [f EXCEPT !.pc = "swait", !.lastError = r.error,
                                !.delay = RetryDelay(call.attempt.subtitle)]
       ELSE call' = Throw([f EXCEPT !.lastError = r.error],
                          RetryError("Subtitle fetch", maxRetries, r.error))
  /\ UNCHANGED <<keyCalls, dual, isServerless, now, cachedApiKey, cacheTimestamp>>

SubtitleFetch == \E raw \in SubNet : SubtitleFetched(raw) /\ UNCHANGED pure

\* faulty variant: after the wait withRetry starts over
SubtitleBackoff_StartsOver ==
  /\ call.pc = "swait"
  /\ call' = WithRetryStart([call EXCEPT !.pc = "subfetch", !.delay = 0], "subtitle")
  /\ UNCHANGED <<keyCalls, pure, dual, isServerless, now, cachedApiKey, cacheTimestamp>>

\* the backoff wait of the subtitle fetch is over: attempt++
SubtitleBackoff ==
  /\ call.pc = "swait"
  /\ call' = [call EXCEPT !.pc = "subfetch", !.attempt.subtitle = @ + 1, !.delay = 0]
  /\ UNCHANGED <<keyCalls, pure, dual, isServerless, now, cachedApiKey, cacheTimestamp>>

Next ==
  \/ \E e \in Entries, l \in Langs : Call(e, l)
  \/ GetDynamicApiKey
  \/ KeyFetch
  \/ KeyBackoff
  \/ PlayerRequest
  \/ VideoBackoff
  \/ VideoDataDone
  \/ SubtitleFetch
  \/ SubtitleBackoff

Spec == Init /\ [][Next]_vars


(***************************************************************************)
(* The dual-extraction variant (src/src/index.ts, lines 1-613).            *)
(***************************************************************************)
\* fetch(url, {method, headers, body}) as fetchInnerTube and
\* getSubtitlesFromCaptions call it: no signal and no timer are passed, so
\* the awaited promise settles only when the network answers or fails
fetchPlain(raw) ==
  [settled |-> raw.kind # "hang",
   threw |-> raw.kind = "neterr",
   error |-> IF raw.kind = "neterr" THEN "network error" ELSE "",
   timeout |-> Null,
   response |-> raw]

\* the outbound request just made, as fetch saw it
DualNetOf(target, raw) ==
  LET r == fetchPlain(raw) IN
  [target |-> target, timeout |-> r.timeout, kind |-> raw.kind, ok |-> raw.ok,
   settled |-> r.settled, threw |-> r.threw]

(***************************************************************************)
(* Upstream data of the dual-extraction variant.                           *)
(***************************************************************************)
\* captionTracks of the /player response
DualTrackLists == TrackLists \cup { << Track(<<".", "f", "r">>, "u4") >> }

\* a parsed /player body; OK stands for every playabilityStatus.status
\* other than LOGIN_REQUIRED
DualPayloads ==
  [ status       : {"OK", "LOGIN_REQUIRED"},
    captions     : {Null} \cup { Some(t) : t \in DualTrackLists },
    videoDetails : VideoDetailsOpts ]

DualPlayerNet ==
  { Hang(Null), NetErr(Null), Resp(FALSE, Null), Resp(TRUE, Null) }
    \cup { Resp(TRUE, Some(p)) : p \in DualPayloads }

\* continuationItemRenderer.continuationEndpoint: continuationCommand.token
\* and getTranscriptEndpoint.params
Endpoint(token, params) == [token |-> token, params |-> params]

\* an item of languageMenu.sortFilterSubMenuRenderer.subMenuItems
MenuItem(title, selected, continuation) ==
  [title |-> title, selected |-> selected, continuation |-> continuation]

\* an item of sectionListRenderer.contents
SectionItem(continuationItemRenderer, transcriptRenderer) ==
  [continuationItemRenderer |-> continuationItemRenderer,
   transcriptRenderer |-> transcriptRenderer]

\* engagementPanelSectionListRenderer.content
PanelContent(continuationItemRenderer, sectionListRenderer) ==
  [continuationItemRenderer |-> continuationItemRenderer,
   sectionListRenderer |-> sectionListRenderer]

Menu(items) == Some([subMenuItems |-> Some(items)])

PanelContents ==
  { PanelContent(Null, Null),
    PanelContent(Some(Endpoint(Some("t1"), Null)), Null),
    PanelContent(Some(Endpoint(Null, Some("p1"))), Null),
    PanelContent(Some(Endpoint(Null, Null)),
                 Some(<< SectionItem(Some(Endpoint(Some("t2"), Null)), Null) >>)),
    PanelContent(Null,
                 Some(<< SectionItem(Null, Null),
                         SectionItem(Null, Menu(<< MenuItem("French", FALSE, Some("t4")),
                                                   MenuItem("ENGLISH (auto-generated)", FALSE, Some("t3")) >>)) >>)),
    PanelContent(Null,
                 Some(<< SectionItem(Null, Menu(<< MenuItem("French", FALSE, Some("t4")),
                                                   MenuItem("German", TRUE, Null) >>)),
                         SectionItem(Null, Some([subMenuItems |-> Null])) >>)) }

Panel(panelIdentifier, content) == [panelIdentifier |-> panelIdentifier, content |-> content]

\* a parsed /next body
NextBodies ==
  { [engagementPanels |-> Null],
    [engagementPanels |-> Some(<< Panel("engagement-panel-structured-description",
                                        PanelContent(Null, Null)) >>)] }
    \cup { [engagementPanels |->
              Some(<< Panel("engagement-panel-structured-description", PanelContent(Null, Null)),
                      Panel("engagement-panel-searchable-transcript", c) >>)] : c \in PanelContents }

DualNextNet ==
  { Hang(Null), NetErr(Null), Resp(FALSE, Null), Resp(TRUE, Null) }
    \cup { Resp(TRUE, Some(b)) : b \in NextBodies }

\* renderer.snippet: simpleText, runs (their text fields) and text; a text
\* is a sequence of tokens: characters, tags and entities
Snippet(simpleText, runs, text) == [simpleText |-> simpleText, runs |-> runs, text |-> text]

Segment(startMs, endMs, snippet) ==
  [transcriptSegmentRenderer |-> Some([startMs |-> startMs, endMs |-> endMs, snippet |-> snippet])]

SegmentLists ==
  { <<>>,
    << Segment(Some(0), Some(1500), Snippet(<<"h", "i">>, Null, <<>>)) >>,
    << Segment(Some(1230), Some(2000), Snippet(<<>>, Some(<< <<"<b>", "a">>, <<"&amp;", "</b>">> >>), <<>>)),
       [transcriptSegmentRenderer |-> Null],
       Segment(Some(2000), Some(2500), Snippet(<<>>, Null, <<" ">>)),
       Segment(Some(3000), Null, Snippet(<<>>, Null, <<"b">>)) >> }

\* a parsed /get_transcript body: ...initialSegments
TranscriptBodies ==
  { [initialSegments |-> Null] } \cup { [initialSegments |-> Some(s)] : s \in SegmentLists }

DualTranscriptNet ==
  { Hang(Null), NetErr(Null), Resp(FALSE, Null), Resp(TRUE, Null) }
    \cup { Resp(TRUE, Some(b)) : b \in TranscriptBodies }

(***************************************************************************)
(* getTranscriptFromEngagementPanel: the panel, the continuation token and *)
(* the cues of the segments.                                               *)
(***************************************************************************)
TranscriptPanel(nextData) ==
  IF IsNull(nextData.engagementPanels) THEN Null
  ELSE LET transcript(panel) ==
             panel.panelIdentifier = "engagement-panel-searchable-transcript" IN
       Find(Val(nextData.engagementPanels), transcript)

\* item?.title?.toLowerCase().includes('english')
TitleIncludesEnglish(title) == title \in { "English", "ENGLISH (auto-generated)" }

\* Method 3 on one item of the contents: the continuation of the English or
\* selected language, or of the first one
ItemToken(item) ==
  IF IsNull(item.transcriptRenderer) THEN Null
  ELSE IF IsNull(Val(item.transcriptRenderer).subMenuItems) THEN Null
  ELSE LET menuItems == Val(Val(item.transcriptRenderer).subMenuItems)
           english(m) == TitleIncludesEnglish(m.title) \/ m.selected
           found == Find(menuItems, english)
           englishItem == IF ~IsNull(found) THEN found
                          ELSE IF Len(menuItems) > 0 THEN Some(menuItems[1]) ELSE Null IN
       IF IsNull(englishItem) THEN Null ELSE Val(englishItem).continuation

FindToken(content) ==
  LET c1 == content.continuationItemRenderer
      \* Method 1: continuationCommand.token, else getTranscriptEndpoint.params
      t1 == IF IsNull(c1) THEN Null
            ELSE IF ~IsNull(Val(c1).token) THEN Val(c1).token
            ELSE Val(c1).params
      contents == IF IsNull(content.sectionListRenderer) THEN <<>>
                  ELSE Val(content.sectionListRenderer)
      \* Method 2: the first item of sectionListRenderer.contents
      t2 == IF ~IsNull(t1) \/ Len(contents) = 0 THEN t1
            ELSE IF IsNull(contents[1].continuationItemRenderer) THEN Null
            ELSE Val(contents[1].continuationItemRenderer).token
      \* Method 3: the first item whose language menu gives a continuation
      hits == { i \in 1..Len(contents) : ~IsNull(ItemToken(contents[i])) } IN
  IF ~IsNull(t2) \/ hits = {} THEN t2
  ELSE ItemToken(contents[CHOOSE i \in hits : \A j \in hits : i <= j])

\* the text of a segment: simpleText, else the joined runs, else text
SegmentText(snippet) ==
  LET Join[i \in 0..Len(Val(snippet.runs))] ==
        IF i = 0 THEN <<>> ELSE Join[i - 1] \o Val(snippet.runs)[i] IN
  IF snippet.simpleText # <<>> THEN snippet.simpleText
  ELSE IF ~IsNull(snippet.runs) THEN Join[Len(Val(snippet.runs))]
  ELSE snippet.text

\* text.trim() is empty
Blank(text) == \A i \in 1..Len(text) : text[i] = " "

\* striptags: the tag tokens go
StripTags(text) ==
  LET tag(t) == t \in { "<b>", "</b>" }
      F[i \in 0..Len(text)] ==
        IF i = 0 THEN <<>>
        ELSE IF tag(text[i]) THEN F[i - 1] ELSE Append(F[i - 1], text[i]) IN
  F[Len(text)]

\* he.decode: an entity token becomes its character
Decode(text) == [i \in 1..Len(text) |-> IF text[i] = "&amp;" THEN "&" ELSE text[i]]

\* faulty variant: whole seconds
Seconds_Whole(ms) ==
  LET a == IF ms < 0 THEN 0 - ms ELSE ms IN
  [negative |-> ms < 0, whole |-> a \div 1000, thousandths |-> 0]

\* (ms / 1000).toString(): seconds, as sign, whole part and thousandths
Seconds(ms) ==
  LET a == IF ms < 0 THEN 0 - ms ELSE ms IN
  [negative |-> ms < 0, whole |-> a \div 1000, thousandths |-> a % 1000]

\* parseInt(renderer.startMs || '0')
ParseMs(v) == IF IsNull(v) THEN 0 ELSE Val(v)

\* faulty variant: a cue is put in front of those already made
SegmentCues_Prepends(segments) ==
  LET has(s) == /\ ~IsNull(s.transcriptSegmentRenderer)
                /\ ~Blank(SegmentText(Val(s.transcriptSegmentRenderer).snippet))
      cue(s) == LET renderer == Val(s.transcriptSegmentRenderer)
                    startMs == ParseMs(renderer.startMs)
                    endMs == ParseMs(renderer.endMs) IN
                [start |-> Seconds(startMs), dur |-> Seconds(endMs - startMs),
                 text |-> Decode(StripTags(SegmentText(renderer.snippet)))]
      F[i \in 0..Len(segments)] ==
        IF i = 0 THEN <<>>
        ELSE IF has(segments[i]) THEN <<cue(segments[i])>> \o F[i - 1]
        ELSE F[i - 1] IN
  F[Len(segments)]

SegmentCues(segments) ==
  LET has(s) == /\ ~IsNull(s.transcriptSegmentRenderer)
                /\ ~Blank(SegmentText(Val(s.transcriptSegmentRenderer).snippet))
      cue(s) == LET renderer == Val(s.transcriptSegmentRenderer)
                    startMs == ParseMs(renderer.startMs)
                    endMs == ParseMs(renderer.endMs) IN
                [start |-> Seconds(startMs), dur |-> Seconds(endMs - startMs),
                 text |-> Decode(StripTags(SegmentText(renderer.snippet)))]
      F[i \in 0..Len(segments)] ==
        IF i = 0 THEN <<>>
        ELSE IF has(segments[i]) THEN Append(F[i - 1], cue(segments[i]))
        ELSE F[i - 1] IN
  F[Len(segments)]

(***************************************************************************)
(* getSubtitlesFromCaptions: track selection with the first track as the   *)
(* last choice.                                                            *)
(***************************************************************************)
\* track.vssId?.includes(`.${lang}`)
Includes(vssId, l) ==
  \E i \in 1..Len(vssId) :
     /\ i + Len(l) <= Len(vssId)
     /\ SubSeq(vssId, i, i + Len(l)) = <<".">> \o l

SelectTrackDual(captionTracks, l) ==
  LET manual(t) == t.vssId = <<".">> \o l
      auto(t) == t.vssId = <<"a", ".">> \o l
      loose(t) == Includes(t.vssId, l)
      m1 == Find(captionTracks, manual)
      m2 == Find(captionTracks, auto)
      m3 == Find(captionTracks, loose) IN
  IF ~IsNull(m1) THEN m1
  ELSE IF ~IsNull(m2) THEN m2
  ELSE IF ~IsNull(m3) THEN m3
  ELSE IF Len(captionTracks) > 0 THEN Some(captionTracks[1])
  ELSE Null

(***************************************************************************)
(* Continuations of the dual-extraction variant.                           *)
(***************************************************************************)
DualReturn(f, subtitles) ==
  [f EXCEPT !.pc = "done",
            !.result = [kind |-> "returned", title |-> f.title,
                        description |-> f.description, subtitles |-> subtitles,
                        error |-> NoError]]

DualThrow(f, e) ==
  [f EXCEPT !.pc = "done", !.result = [NoResult EXCEPT !.kind = "threw", !.error = e]]

\* the awaited fetch never settles: the call stays where it is
Pending(f) == [f EXCEPT !.pc = "pending"]

\* getSubtitlesFromCaptions up to its fetch
StartCaptions(f) ==
  LET captionTracks == Val(f.playerData).captions IN
  IF IsNull(captionTracks) THEN DualReturn(f, <<>>)
  ELSE LET subtitle == SelectTrackDual(Val(captionTracks), f.lang)
           g == [f EXCEPT !.subtitle = subtitle] IN
       IF IsNull(subtitle) \/ Val(subtitle).baseUrl = "" THEN DualReturn(g, <<>>)
       ELSE [g EXCEPT !.pc = "captions"]

\* getSubtitlesFromCaptions threw: getSubtitles rethrows, getVideoDetails
\* logs and returns no subtitles
CaptionsThrew(f, e) ==
  IF f.entry = "getVideoDetails"
    THEN DualReturn([f EXCEPT !.caught = Append(@, e.message)], <<>>)
    ELSE DualThrow(f, e)

\* faulty variant: the follow-up request is made with or without a token
StartTranscript_AlwaysFetches(f, nextData) ==
  LET panel == TranscriptPanel(nextData)
      token == IF IsNull(panel) THEN Null ELSE FindToken(Val(panel).content) IN
  [f EXCEPT !.pc = "transcript", !.token = token]

\* getTranscriptFromEngagementPanel up to its fetch; without panel or token
\* it returns [] and the caller goes on to the captions
StartTranscript(f, nextData) ==
  LET panel == TranscriptPanel(nextData)
      token == IF IsNull(panel) THEN Null ELSE FindToken(Val(panel).content) IN
  IF IsNull(token) THEN StartCaptions(f)
  ELSE [f EXCEPT !.pc = "transcript", !.token = token]

\* getVideoInfo has returned { playerData, nextData }
AfterVideoInfo(f, playerData, nextData) ==
  LET vd == playerData.videoDetails
      title == IF IsNull(vd) \/ Val(vd).title = "" THEN "No title found"
               ELSE Val(vd).title
      description == IF IsNull(vd) \/ Val(vd).shortDescription = ""
                     THEN "No description found" ELSE Val(vd).shortDescription
      g == IF f.entry = "getVideoDetails"
             THEN [f EXCEPT !.playerData = Some(playerData), !.nextData = nextData,
                            !.title = title, !.description = description]
             ELSE [f EXCEPT !.playerData = Some(playerData), !.nextData = nextData] IN
  IF IsNull(nextData) THEN StartCaptions(g) ELSE StartTranscript(g, Val(nextData))

(***************************************************************************)
(* Actions of the dual-extraction variant: one per awaited fetch.          *)
(***************************************************************************)
DualCall(e, l) ==
  /\ dual.pc = "idle"
  /\ dual' = [IdleDual EXCEPT !.pc = "player", !.entry = e, !.lang = l]
  /\ UNCHANGED <<keyCalls, pure, isServerless, now, cachedApiKey, cacheTimestamp, call>>

\* faulty variant: /next is requested whatever the playability status
PlayerAnswered_AlwaysNext(d, raw) ==
  LET r == fetchPlain(raw)
      f == [d EXCEPT !.net = DualNetOf("/player", raw), !.sent = Append(@, "/player")] IN
  IF ~r.settled THEN Pending(f)
  ELSE IF r.threw THEN DualThrow(f, PlainError(r.error))
  ELSE IF ~raw.ok THEN DualThrow(f, PlainError("Player API failed"))
  ELSE IF IsNull(raw.body) THEN DualThrow(f, PlainError("invalid JSON"))
  ELSE [f EXCEPT !.pc = "next", !.playerData = raw.body]

\* getVideoInfo once fetchInnerTube('/player') is answered by raw
PlayerAnswered(d, raw) ==
  LET r == fetchPlain(raw)
      f == [d EXCEPT !.net = DualNetOf("/player", raw), !.sent = Append(@, "/player")] IN
  IF ~r.settled THEN Pending(f)
  ELSE IF r.threw THEN DualThrow(f, PlainError(r.error))
  ELSE IF ~raw.ok THEN DualThrow(f, PlainError("Player API failed"))
  ELSE IF IsNull(raw.body) THEN DualThrow(f, PlainError("invalid JSON"))
  ELSE IF Val(raw.body).status = "LOGIN_REQUIRED"
    THEN [f EXCEPT !.pc = "next", !.playerData = raw.body]
  ELSE AfterVideoInfo(f, Val(raw.body), Null)

\* getVideoInfo on LOGIN_REQUIRED once fetchInnerTube('/next') is answered
NextAnswered(d, raw) ==
  LET r == fetchPlain(raw)
      f == [d EXCEPT !.net = DualNetOf("/next", raw), !.sent = Append(@, "/next")] IN
  IF ~r.settled THEN Pending(f)
  ELSE IF r.threw THEN DualThrow(f, PlainError(r.error))
  ELSE IF ~raw.ok THEN DualThrow(f, PlainError("Next API failed"))
  ELSE IF IsNull(raw.body) THEN DualThrow(f, PlainError("invalid JSON"))
  ELSE AfterVideoInfo(f, Val(f.playerData), raw.body)

\* faulty variant: what the transcript request throws reaches the caller
TranscriptAnswered_Propagates(d, raw) ==
  LET r == fetchPlain(raw)
      f == [d EXCEPT !.net = DualNetOf("/get_transcript", raw),
                     !.sent = Append(@, "/get_transcript")]
      caught(msg) == DualThrow(f, PlainError(msg)) IN
  IF ~r.settled THEN Pending(f)
  ELSE IF r.threw THEN caught(r.error)
  ELSE IF ~raw.ok THEN caught("Transcript API failed")
  ELSE IF IsNull(raw.body) THEN caught("invalid JSON")
  ELSE IF IsNull(Val(raw.body).initialSegments) THEN StartCaptions(f)
  ELSE LET subtitles == SegmentCues(Val(Val(raw.body).initialSegments)) IN
       IF Len(subtitles) > 0 THEN DualReturn(f, subtitles)
       ELSE StartCaptions(f)

\* getTranscriptFromEngagementPanel once fetchInnerTube('/get_transcript')
\* is answered; what it throws is caught by the caller, which goes on to
\* the captions
TranscriptAnswered(d, raw) ==
  LET r == fetchPlain(raw)
      f == [d EXCEPT !.net = DualNetOf("/get_transcript", raw),
                     !.sent = Append(@, "/get_transcript")]
      caught(msg) == StartCaptions([f EXCEPT !.caught = Append(@, msg)]) IN
  IF ~r.settled THEN Pending(f)
  ELSE IF r.threw THEN caught(r.error)
  ELSE IF ~raw.ok THEN caught("Transcript API failed")
  ELSE IF IsNull(raw.body) THEN caught("invalid JSON")
  ELSE IF IsNull(Val(raw.body).initialSegments) THEN StartCaptions(f)
  ELSE LET subtitles == SegmentCues(Val(Val(raw.body).initialSegments)) IN
       IF Len(subtitles) > 0 THEN DualReturn(f, subtitles)
       ELSE StartCaptions(f)

\* getSubtitlesFromCaptions once fetch(captionUrl) is answered, and the
\* parse of the body
CaptionAnswered(d, raw) ==
  LET r == fetchPlain(raw)
      f == [d EXCEPT !.net = DualNetOf("timedtext", raw), !.sent = Append(@, "timedtext")] IN
  IF ~r.settled THEN Pending(f)
  ELSE IF r.threw THEN CaptionsThrew(f, PlainError(r.error))
  ELSE IF ~raw.ok THEN CaptionsThrew(f, PlainError("Caption fetch failed"))
  ELSE IF Len(raw.body) = 0
    THEN CaptionsThrew(f, PlainError("Caption content is empty or invalid"))
  ELSE DualReturn(f, extractSubtitlesFromXML(raw.body))

\* getVideoInfo: fetchInnerTube('/player')
PlayerFetch ==
  /\ dual.pc = "player"
  /\ \E raw \in DualPlayerNet : dual' = PlayerAnswered(dual, raw)
  /\ UNCHANGED <<keyCalls, pure, isServerless, now, cachedApiKey, cacheTimestamp, call>>

\* getVideoInfo on LOGIN_REQUIRED: fetchInnerTube('/next')
NextFetch ==
  /\ dual.pc = "next"
  /\ \E raw \in DualNextNet : dual' = NextAnswered(dual, raw)
  /\ UNCHANGED <<keyCalls, pure, isServerless, now, cachedApiKey, cacheTimestamp, call>>

\* getTranscriptFromEngagementPanel: fetchInnerTube('/get_transcript')
TranscriptFetch ==
  /\ dual.pc = "transcript"
  /\ \E raw \in DualTranscriptNet : dual' = TranscriptAnswered(dual, raw)
  /\ UNCHANGED <<keyCalls, pure, isServerless, now, cachedApiKey, cacheTimestamp, call>>

\* getSubtitlesFromCaptions: fetch(captionUrl)
CaptionFetch ==
  /\ dual.pc = "captions"
  /\ \E raw \in SubNet : dual' = CaptionAnswered(dual, raw)
  /\ UNCHANGED <<keyCalls, pure, isServerless, now, cachedApiKey, cacheTimestamp, call>>

NextDual ==
  \/ \E e \in Entries, l \in Langs : DualCall(e, l)
  \/ PlayerFetch
  \/ NextFetch
  \/ TranscriptFetch
  \/ CaptionFetch

SpecDual == Init /\ [][NextDual]_vars


(***************************************************************************)
(* Concurrent getApiKey calls (src/unnamed/part_004, lines 243-335).  The  *)
(* calls run on one thread and interleave at their awaits: the fetch of an *)
(* attempt, the backoff wait, and the resumption of getDynamicApiKey with  *)
(* the key withRetry resolved to.                                          *)
(***************************************************************************)
ConcurrentKeys == DynamicKeys \cup {"k2"}

ConcurrentKeyNet ==
  KeyNet \cup { Resp(TRUE, [jspb |-> TRUE, key |-> Some(k)]) : k \in ConcurrentKeys }

\* faulty variant: the time of the write is stored
StoredStamp_AtWrite(f) == now

\* cacheTimestamp = now: the local `now` read at the start of the call
StoredStamp(f) == f.now

\* getApiKey is called: Date.now() and the cache check of getDynamicApiKey
KeysCall(p) ==
  /\ keyCalls[p].pc = "idle"
  /\ \E dt \in ClockSteps :
       /\ now + dt <= MaxTicks * TickMs
       /\ now' = now + dt
  /\ keyCalls' =
       [keyCalls EXCEPT ![p] =
          IF CacheHit(cachedApiKey, cacheTimestamp, now')
            THEN [@ EXCEPT !.pc = "done", !.now = now', !.returned = cachedApiKey,
                           !.from = "cache"]
            ELSE [@ EXCEPT !.pc = "fetch", !.now = now', !.attempt = 1]]
  /\ UNCHANGED <<isServerless, cachedApiKey, cacheTimestamp, call, dual, pure>>

\* one attempt of withRetry('Dynamic API key fetch') settles
KeysFetch(p) ==
  /\ keyCalls[p].pc = "fetch"
  /\ \E raw \in ConcurrentKeyNet :
       LET r == KeyOperation(raw, isServerless)
           f == keyCalls[p] IN
       keyCalls' =
         [keyCalls EXCEPT ![p] =
            IF ~r.threw THEN [f EXCEPT !.pc = "store", !.apiKey = Some(r.key)]
            ELSE IF RetryDecision(f.attempt, maxRetries) = "wait"
              THEN [f EXCEPT !.pc = "wait"]
            ELSE \* getApiKey's catch block
              [f EXCEPT !.pc = "done", !.returned = Some(FALLBACK_INNERTUBE_API_KEY),
                        !.from = "fallback"]]
  /\ UNCHANGED <<isServerless, now, cachedApiKey, cacheTimestamp, call, dual, pure>>

\* the backoff wait is over: attempt++
KeysBackoff(p) ==
  /\ keyCalls[p].pc = "wait"
  /\ keyCalls' = [keyCalls EXCEPT ![p] = [@ EXCEPT !.pc = "fetch", !.attempt = @ + 1]]
  /\ UNCHANGED <<isServerless, now, cachedApiKey, cacheTimestamp, call, dual, pure>>

\* getDynamicApiKey resumes with the key: cachedApiKey = apiKey;
\* cacheTimestamp = now; return apiKey
KeysStore(p) ==
  /\ keyCalls[p].pc = "store"
  /\ cachedApiKey' = keyCalls[p].apiKey
  /\ cacheTimestamp' = StoredStamp(keyCalls[p])
  /\ keyCalls' = [keyCalls EXCEPT ![p] = [@ EXCEPT !.pc = "done",
                                                   !.returned = keyCalls[p].apiKey,
                                                   !.from = "fetch", !.stored = TRUE]]
  /\ UNCHANGED <<isServerless, now, call, dual, pure>>

NextKeys ==
  \E p \in Procs : KeysCall(p) \/ KeysFetch(p) \/ KeysBackoff(p) \/ KeysStore(p)

SpecKeys == Init /\ [][NextKeys]_vars


(***************************************************************************)
(* getVideoDetails of the variant that searches several locations of the   *)
(* /player and /next payloads for the title and the description            *)
(* (src/unnamed/part_003, lines 736-934).  A text is a string ("" when     *)
(* absent), a runs array is absent (Null) or a sequence of texts.          *)
(***************************************************************************)
NoTitle == "No title found"
NoDescription == "No description found"

\* runs.map((run) => run.text).join('')
JoinRuns(runs) ==
  LET F[i \in 0..Len(runs)] == IF i = 0 THEN "" ELSE F[i - 1] \o runs[i] IN
  F[Len(runs)]

\* nextData?.contents?.twoColumnWatchNextResults?.results?.results?.contents
ContentsOf(nextData) ==
  IF IsNull(nextData) \/ IsNull(Val(nextData).contents) THEN <<>>
  ELSE Val(Val(nextData).contents)

\* contents?.[i]?.videoPrimaryInfoRenderer (i counted from 1)
PrimaryAt(contents, i) ==
  IF i > Len(contents) THEN Null ELSE contents[i].videoPrimaryInfoRenderer

\* content?.videoSecondaryInfoRenderer?.description?.runs
SecondaryRuns(content) ==
  IF IsNull(content.videoSecondaryInfoRenderer) THEN Null
  ELSE Val(content.videoSecondaryInfoRenderer).description

\* content?.videoSecondaryInfoRenderer?.attributedDescription?.content
Attributed(content) ==
  IF IsNull(content.videoSecondaryInfoRenderer) THEN ""
  ELSE Val(content.videoSecondaryInfoRenderer).attributedDescription

\* the title: videoDetails.title, else the first run of the primary info
\* title, else the metadata title, else nextData.videoDetails.title
TitleOf(playerData, nextData) ==
  LET vd == playerData.videoDetails
      primary == PrimaryAt(ContentsOf(nextData), 1)
      runs == IF IsNull(primary) THEN Null ELSE Val(primary).title IN
  IF ~IsNull(vd) /\ Val(vd).title # "" THEN Val(vd).title
  ELSE IF ~IsNull(runs) /\ Len(Val(runs)) > 0 /\ Val(runs)[1] # "" THEN Val(runs)[1]
  ELSE IF ~IsNull(nextData) /\ Val(nextData).metadata.title # ""
    THEN Val(nextData).metadata.title
  ELSE IF ~IsNull(nextData) /\ Val(nextData).videoDetails.title # ""
    THEN Val(nextData).videoDetails.title
  ELSE NoTitle

\* the if / else-if chain of the description: shortDescription, else the
\* secondary info of contents[1], else (when contents[0] has top-level
\* buttons) the primary info description if there is one, else the metadata
\* description, else nextData.videoDetails.shortDescription
DescriptionChain(playerData, nextData) ==
  LET vd == playerData.videoDetails
      contents == ContentsOf(nextData)
      second == IF Len(contents) >= 2 THEN SecondaryRuns(contents[2]) ELSE Null
      primary == PrimaryAt(contents, 1) IN
  IF ~IsNull(vd) /\ Val(vd).shortDescription # "" THEN Val(vd).shortDescription
  ELSE IF ~IsNull(second) THEN JoinRuns(Val(second))
  ELSE IF ~IsNull(primary) /\ Val(primary).topLevelButtons
    THEN IF ~IsNull(Val(primary).description)
           THEN JoinRuns(Val(Val(primary).description))
           ELSE NoDescription
  ELSE IF ~IsNull(nextData) /\ Val(nextData).metadata.description # ""
    THEN Val(nextData).metadata.description
  ELSE IF ~IsNull(nextData) /\ Val(nextData).videoDetails.shortDescription # ""
    THEN Val(nextData).videoDetails.shortDescription
  ELSE NoDescription

\* the loop over contents: the first content with secondary description
\* runs or an attributed description
ContentsSearch(nextData) ==
  LET contents == ContentsOf(nextData)
      hit(c) == ~IsNull(SecondaryRuns(c)) \/ Attributed(c) # ""
      hits == { i \in 1..Len(contents) : hit(contents[i]) } IN
  IF hits = {} THEN NoDescription
  ELSE LET c == contents[CHOOSE i \in hits : \A j \in hits : i <= j] IN
       IF ~IsNull(SecondaryRuns(c)) THEN JoinRuns(Val(SecondaryRuns(c)))
       ELSE Attributed(c)

\* the inner loop over the items of one panel: the first item with header
\* runs or body runs
PanelDescription(panel) ==
  IF IsNull(panel.items) THEN NoDescription
  ELSE LET items == Val(panel.items)
           hit(item) == ~IsNull(item.header) \/ ~IsNull(item.body)
           hits == { i \in 1..Len(items) : hit(items[i]) } IN
       IF hits = {} THEN NoDescription
       ELSE LET item == items[CHOOSE i \in hits : \A j \in hits : i <= j] IN
            IF ~IsNull(item.header) THEN JoinRuns(Val(item.header))
            ELSE JoinRuns(Val(item.body))

\* the loop over the engagement panels: it stops at the first panel that
\* changed the description
PanelsSearch(nextData) ==
  IF IsNull(nextData) \/ IsNull(Val(nextData).engagementPanels) THEN NoDescription
  ELSE LET panels == Val(Val(nextData).engagementPanels)
           hits == { i \in 1..Len(panels) : PanelDescription(panels[i]) # NoDescription } IN
       IF hits = {} THEN NoDescription
       ELSE PanelDescription(panels[CHOOSE i \in hits : \A j \in hits : i <= j])

\* faulty variant: without a description the result is the empty text
DescriptionOf_NoSentinel(playerData, nextData) ==
  LET d1 == DescriptionChain(playerData, nextData)
      d2 == IF d1 = NoDescription THEN ContentsSearch(nextData) ELSE d1
      d3 == IF d2 = NoDescription THEN PanelsSearch(nextData) ELSE d2 IN
  IF d3 = NoDescription THEN "" ELSE d3

\* the description: the chain, then the two searches, each made only while
\* the description is still 'No description found'
DescriptionOf(playerData, nextData) ==
  LET d1 == DescriptionChain(playerData, nextData)
      d2 == IF d1 = NoDescription THEN ContentsSearch(nextData) ELSE d1 IN
  IF d2 = NoDescription THEN PanelsSearch(nextData) ELSE d2

(***************************************************************************)
(* The pure functions of the pipeline, applied to inputs drawn from        *)
(* bounded sets.                                                           *)
(***************************************************************************)
\* longest track list, caption payload (lines), cue body (tokens) and
\* segment list drawn
MaxTracks == 3
MaxLines == 2
MaxBody == 3
MaxSegments == 2
\* longest contents list and longest engagement panel list drawn
MaxContents == 2
MaxPanels == 2

\* the sequences over S of length at most n
SeqsUpTo(S, n) == UNION { [1..k -> S] : k \in 0..n }

\* vssIds: manual, auto-generated and named English tracks, a French track,
\* and a track whose id has `-en` where another has `.en`
VssIds ==
  { <<".", "e", "n">>, <<"a", ".", "e", "n">>, <<".", "f", "r">>,
    <<"a", "-", "e", "n">>, <<".", "e", "n", ".", "x">> }

Urls == <<"u1", "u2", "u3", "u4">>

\* track lists: the i-th track has the i-th url
PureTrackLists ==
  { [i \in 1..Len(ids) |-> Track(ids[i], Urls[i])] : ids \in SeqsUpTo(VssIds, MaxTracks) }

BodyTokens == { "a", " ", "<b>", "</b>", "&amp;", "\n" }

PureBodies ==
  SeqsUpTo(BodyTokens, MaxBody)
    \cup { <<"<b>", "Hello", " ", "&amp;", " ", "world", "</b>">>,
           <<"&lt;", "b", "&gt;", "a">> }

PureLines ==
  { Line(s, d, t) : s \in {Null, Some(0), Some(3)}, d \in {Null, Some(2)},
                    t \in { <<"a">>, <<"b", "<b>", "c", "</b>">> } }

PureTranscripts == SeqsUpTo(PureLines, MaxLines)

PureSegments ==
  { [transcriptSegmentRenderer |-> Null] }
    \cup { Segment(s, e, n) : s \in {Null, Some(0), Some(1230)}, e \in {Null, Some(2000)},
                              n \in { Snippet(<<"h", "i">>, Null, <<>>),
                                       Snippet(<<>>, Null, <<" ">>) } }

PureSegmentLists == SeqsUpTo(PureSegments, MaxSegments)

\* /player and /next payloads for the description search
PrimaryInfos ==
  { [title |-> Null, topLevelButtons |-> FALSE, description |-> Null],
    [title |-> Null, topLevelButtons |-> TRUE, description |-> Null],
    [title |-> Null, topLevelButtons |-> TRUE, description |-> Some(<<"D3">>)] }

SecondaryInfos ==
  { [description |-> Some(<<>>), attributedDescription |-> ""],
    [description |-> Some(<<"D2", "b">>), attributedDescription |-> ""],
    [description |-> Null, attributedDescription |-> "D6"] }

ContentItems ==
  { [videoPrimaryInfoRenderer |-> Some(i), videoSecondaryInfoRenderer |-> Null] :
      i \in PrimaryInfos }
    \cup { [videoPrimaryInfoRenderer |-> Null, videoSecondaryInfoRenderer |-> Some(i)] :
             i \in SecondaryInfos }

DescriptionPanels ==
  { [items |-> Null],
    [items |-> Some(<< [header |-> Some(<<"D7">>), body |-> Null] >>)],
    [items |-> Some(<< [header |-> Null, body |-> Null],
                       [header |-> Null, body |-> Some(<<"D8", "c">>)] >>)] }

NextTexts ==
  { [metadata |-> [title |-> "", description |-> m],
     videoDetails |-> [title |-> "", shortDescription |-> v]] :
      <<m, v>> \in { <<"", "">>, <<"D4", "">>, <<"", "D5">> } }

DescriptionNexts ==
  {Null} \cup
  { Some([contents |-> c, metadata |-> t.metadata, videoDetails |-> t.videoDetails,
          engagementPanels |-> e]) :
      c \in {Null} \cup { Some(x) : x \in SeqsUpTo(ContentItems, MaxContents) },
      t \in NextTexts,
      e \in {Null} \cup { Some(x) : x \in SeqsUpTo(DescriptionPanels, MaxPanels) } }

\* /next payloads for the title search
TitleContents ==
  { Null, Some(<<>>),
    Some(<< [videoPrimaryInfoRenderer |-> Null, videoSecondaryInfoRenderer |-> Null] >>) }
    \cup { Some(<< [videoPrimaryInfoRenderer |->
                      Some([title |-> r, topLevelButtons |-> FALSE, description |-> Null]),
                    videoSecondaryInfoRenderer |-> Null] >>) :
             r \in { Null, Some(<<>>), Some(<<"">>), Some(<<"T2", "x">>) } }

TitleNexts ==
  {Null} \cup
  { Some([contents |-> c,
          metadata |-> [title |-> m, description |-> ""],
          videoDetails |-> [title |-> v, shortDescription |-> ""],
          engagementPanels |-> Null]) :
      c \in TitleContents, m \in {"", "T3"}, v \in {"", "T4"} }

PureDetails ==
  { [playerData |-> [videoDetails |-> vd], nextData |-> n] :
      vd \in VideoDetailsOpts \cup { Some([title |-> "T1", shortDescription |-> ""]) },
      n \in DescriptionNexts \cup TitleNexts }

PureInput(fn, input, l) == [IdlePure EXCEPT !.fn = fn, !.input = input, !.lang = l]

InitPure ==
  /\ isServerless = FALSE
  /\ now = 0
  /\ cachedApiKey = Null
  /\ cacheTimestamp = 0
  /\ call = IdleCall
  /\ dual = IdleDual
  /\ keyCalls = [p \in Procs |-> IdleKeyCall]
  /\ pure \in { PureInput("select", t, l) : t \in PureTrackLists, l \in Langs }
              \cup { PureInput("xml", t, <<>>) : t \in PureTranscripts }
              \cup { PureInput("text", b, <<>>) : b \in PureBodies }
              \cup { PureInput("segments", g, <<>>) : g \in PureSegmentLists }
              \cup { PureInput("details", d, <<>>) : d \in PureDetails }

\* the track selection of getSubtitles / getVideoDetails (multi) and of
\* getSubtitlesFromCaptions (dual)
SelectStep ==
  /\ pure.fn = "select" /\ ~pure.done
  /\ pure' = [pure EXCEPT !.done = TRUE,
                          !.output = [multi |-> SelectTrack(pure.input, pure.lang),
                                      dual |-> SelectTrackDual(pure.input, pure.lang)]]
  /\ UNCHANGED <<isServerless, now, cachedApiKey, cacheTimestamp, call, dual, keyCalls>>

\* extractSubtitlesFromXML on a caption payload
ParseStep ==
  /\ pure.fn = "xml" /\ ~pure.done
  /\ pure' = [pure EXCEPT !.done = TRUE, !.output = extractSubtitlesFromXML(pure.input)]
  /\ UNCHANGED <<isServerless, now, cachedApiKey, cacheTimestamp, call, dual, keyCalls>>

\* the text extractSubtitlesFromXML gives the cue of one line
TextStep ==
  /\ pure.fn = "text" /\ ~pure.done
  /\ pure' = [pure EXCEPT !.done = TRUE, !.output = CueText(pure.input)]
  /\ UNCHANGED <<isServerless, now, cachedApiKey, cacheTimestamp, call, dual, keyCalls>>

\* the cues getTranscriptFromEngagementPanel makes of the segments
SegmentStep ==
  /\ pure.fn = "segments" /\ ~pure.done
  /\ pure' = [pure EXCEPT !.done = TRUE, !.output = SegmentCues(pure.input)]
  /\ UNCHANGED <<isServerless, now, cachedApiKey, cacheTimestamp, call, dual, keyCalls>>

\* the title and the description getVideoDetails takes from the payloads
DetailsStep ==
  /\ pure.fn = "details" /\ ~pure.done
  /\ pure' = [pure EXCEPT !.done = TRUE,
                          !.output = [title |-> TitleOf(pure.input.playerData, pure.input.nextData),
                                      description |-> DescriptionOf(pure.input.playerData,
                                                                    pure.input.nextData)]]
  /\ UNCHANGED <<isServerless, now, cachedApiKey, cacheTimestamp, call, dual, keyCalls>>

NextPure ==
  \/ SelectStep
  \/ ParseStep
  \/ TextStep
  \/ SegmentStep
  \/ DetailsStep

SpecPure == InitPure /\ [][NextPure]_vars


(***************************************************************************)
(* getSubtitles and then getVideoDetails of the dual-extraction variant,   *)
(* called with the same language against an upstream that answers each     *)
(* endpoint the same way in both calls.  pure.input is what the upstream   *)
(* answers on each endpoint, pure.output the outcomes of the calls made.   *)
(***************************************************************************)
PairEntries == <<"getSubtitles", "getVideoDetails">>

Upstreams ==
  [ player : DualPlayerNet, next : DualNextNet,
    transcript : DualTranscriptNet, caption : SubNet ]

InitPair ==
  /\ isServerless = FALSE
  /\ now = 0
  /\ cachedApiKey = Null
  /\ cacheTimestamp = 0
  /\ call = IdleCall
  /\ dual = IdleDual
  /\ keyCalls = [p \in Procs |-> IdleKeyCall]
  /\ pure \in { PureInput("pair", u, l) : u \in Upstreams, l \in Langs }

PairCall ==
  /\ pure.fn = "pair" /\ ~pure.done
  /\ dual.pc = "idle"
  /\ dual' = [IdleDual EXCEPT !.pc = "player", !.lang = pure.lang,
                              !.entry = PairEntries[Len(pure.output) + 1]]
  /\ UNCHANGED <<keyCalls, pure, isServerless, now, cachedApiKey, cacheTimestamp, call>>

\* the pending request of the call is answered as the upstream answers it
PairAnswer ==
  /\ pure.fn = "pair"
  /\ dual.pc \in {"player", "next", "transcript", "captions"}
  /\ dual' = IF dual.pc = "player" THEN PlayerAnswered(dual, pure.input.player)
             ELSE IF dual.pc = "next" THEN NextAnswered(dual, pure.input.next)
             ELSE IF dual.pc = "transcript"
               THEN TranscriptAnswered(dual, pure.input.transcript)
             ELSE CaptionAnswered(dual, pure.input.caption)
  /\ UNCHANGED <<keyCalls, pure, isServerless, now, cachedApiKey, cacheTimestamp, call>>

\* the caller has the outcome of the call (or has given up waiting for it)
PairSettle ==
  /\ pure.fn = "pair"
  /\ dual.pc \in {"done", "pending"}
  /\ LET outcome == IF dual.pc = "pending" THEN [NoResult EXCEPT !.kind = "pending"]
                    ELSE dual.result
         out == Append(pure.output, outcome) IN
     pure' = [pure EXCEPT !.output = out, !.done = Len(out) = Len(PairEntries)]
  /\ dual' = IdleDual
  /\ UNCHANGED <<keyCalls, isServerless, now, cachedApiKey, cacheTimestamp, call>>

NextPair ==
  \/ PairCall
  \/ PairAnswer
  \/ PairSettle

SpecPair == InitPair /\ [][NextPair]_vars


(***************************************************************************)
(* getSubtitles of the multi-client variant called twice with the same     *)
(* language against an upstream that answers every request the same way:   *)
(* sw.js_data and the caption URL each have one answer, and a player       *)
(* request is answered by the key it carries.  pure.input is the upstream, *)
(* pure.output the outcomes of the calls made and, for every key lookup of *)
(* the calls, whether it was a cache hit.                                  *)
(***************************************************************************)
\* the key found in the cache before the first call
CachedBefore == "k0"

\* the keys a player request may carry
TwiceKeys == {CachedBefore, FALLBACK_INNERTUBE_API_KEY} \cup DynamicKeys

\* answers to a player request: a transport error, a response without
\* captions, videoDetails and streamingData that is big enough to be
\* retained, and a response with caption tracks
PlayerAnswers ==
  { NetErr(Null) }
    \cup { Resp(TRUE, Some(p)) :
             p \in { q \in Payloads :
                       /\ q.status = "OK"
                       /\ IsNull(q.videoDetails) /\ IsNull(q.streamingData)
                       /\ \/ IsNull(q.captions) /\ q.nOther = RETAIN_KEYS
                          \/ ~IsNull(q.captions) /\ Len(Val(q.captions)) = 3 } }

TwiceUpstreams ==
  [ key : KeyNet, player : [TwiceKeys -> PlayerAnswers], caption : SubNet ]

\* the cache before the first call: empty, holding a fresh key, or holding
\* an expired one
CachesBefore ==
  { [key |-> Null, stamp |-> 0],
    [key |-> Some(CachedBefore), stamp |-> 0],
    [key |-> Some(CachedBefore), stamp |-> 0 - CACHE_DURATION] }

InitTwice ==
  /\ isServerless \in BOOLEAN
  /\ now = 0
  /\ \E c \in CachesBefore : cachedApiKey = c.key /\ cacheTimestamp = c.stamp
  /\ call = IdleCall
  /\ dual = IdleDual
  /\ keyCalls = [p \in Procs |-> IdleKeyCall]
  /\ pure \in { [PureInput("twice", u, l) EXCEPT
                    !.output = [outcomes |-> <<>>, lookups |-> <<>>]] :
                  u \in TwiceUpstreams, l \in Langs }

TwiceCall ==
  /\ pure.fn = "twice" /\ ~pure.done
  /\ call.pc = "idle"
  /\ call' = StartVideoFetch([IdleCall EXCEPT !.entry = "getSubtitles", !.lang = pure.lang,
                                              !.phase = 2])
  /\ UNCHANGED <<keyCalls, pure, dual, isServerless, now, cachedApiKey, cacheTimestamp>>

TwiceLookup ==
  /\ pure.fn = "twice"
  /\ KeyLookup
  /\ pure' = [pure EXCEPT !.output.lookups = Append(@, call'.pc = "player")]

TwiceKeyFetch ==
  /\ pure.fn = "twice"
  /\ KeyFetched(pure.input.key)
  /\ UNCHANGED pure

TwicePlayerRequest ==
  /\ pure.fn = "twice"
  /\ call.pc = "player"
  /\ PlayerRequested(pure.input.player[Val(call.apiKey)])
  /\ UNCHANGED pure

TwiceSubtitleFetch ==
  /\ pure.fn = "twice"
  /\ SubtitleFetched(pure.input.caption)
  /\ UNCHANGED pure

\* the caller has the outcome of the call
TwiceSettle ==
  /\ pure.fn = "twice"
  /\ call.pc = "done"
  /\ LET out == Append(pure.output.outcomes, call.result) IN
     pure' = [pure EXCEPT !.output.outcomes = out, !.done = Len(out) = 2]
  /\ call' = IdleCall
  /\ UNCHANGED <<keyCalls, dual, isServerless, now, cachedApiKey, cacheTimestamp>>

NextTwice ==
  \/ TwiceCall
  \/ TwiceLookup
  \/ TwiceKeyFetch
  \/ KeyBackoff
  \/ TwicePlayerRequest
  \/ VideoBackoff
  \/ VideoDataDone
  \/ TwiceSubtitleFetch
  \/ SubtitleBackoff
  \/ TwiceSettle

SpecTwice == InitTwice /\ [][NextTwice]_vars


(***************************************************************************)
(* The proxy variant (axios and tunnel): getSubtitles and getVideoDetails  *)
(* take proxy coordinates, build a client from them, read the watch page   *)
(* and then the caption payload.  pure.input is the entry point and its    *)
(* options, pure.output the frame of the call: its position, its client,   *)
(* and every outbound request with the agent that carried it.              *)
(***************************************************************************)
ProxyUrls == { "", "proxy.example" }
ProxyPorts == { 0 - 1, 0, 8080 }
ProxyUsernames == { "", "user" }
ProxyPasswords == { "", "secret" }

ProxyOptions ==
  [ proxyUrl : ProxyUrls, proxyPort : ProxyPorts,
    proxyUsername : ProxyUsernames, proxyPassword : ProxyPasswords ]

\* axios.create({ httpsAgent: tunnel.httpsOverHttp({ proxy }) }) when a host
\* and a positive port are given, axios.create() otherwise
createClient(proxyUrl, proxyPort, proxyUsername, proxyPassword) ==
  IF proxyUrl # "" /\ proxyPort > 0
    THEN [ httpsAgent |->
             Some([ host |-> proxyUrl, port |-> proxyPort,
                    proxyAuth |-> IF proxyUsername # "" /\ proxyPassword # ""
                                    THEN Some(proxyUsername \o ":" \o proxyPassword)
                                    ELSE Null ]) ]
    ELSE [ httpsAgent |-> Null ]

\* the watch page: its title and description meta tags, whether it contains
\* the word captionTracks, and the array the regular expression captures
WatchPages ==
  { w \in [ title : { Null, Some("T") }, description : { Null, Some("D") },
            includesWord : BOOLEAN, captionTracks : { Null } \cup { Some(t) : t \in TrackLists } ] :
      ~IsNull(w.captionTracks) => w.includesWord }

WatchNet ==
  { Hang(Null), NetErr(Null), Resp(FALSE, Null) } \cup { Resp(TRUE, Some(w)) : w \in WatchPages }

\* an outbound request and the agent that carried it (Null: a direct
\* connection)
Sent(target, agent) == [ target |-> target, agent |-> agent ]

IdleProxy ==
  [ pc |-> "idle", client |-> [ httpsAgent |-> Null ], sent |-> <<>>,
    title |-> "", description |-> "", subtitle |-> Null, result |-> NoResult ]

InitProxy ==
  /\ isServerless = FALSE
  /\ now = 0
  /\ cachedApiKey = Null
  /\ cacheTimestamp = 0
  /\ call = IdleCall
  /\ dual = IdleDual
  /\ keyCalls = [p \in Procs |-> IdleKeyCall]
  /\ pure \in { [PureInput("proxy", [entry |-> e, options |-> o], l) EXCEPT !.output = IdleProxy] :
                  e \in Entries, o \in ProxyOptions, l \in Langs }

\* the call returns: getVideoDetails with title and description
ProxyReturn(f, entry, subtitles) ==
  [f EXCEPT !.pc = "done",
            !.result = [kind |-> "returned",
                        title |-> IF entry = "getVideoDetails" THEN f.title ELSE "",
                        description |-> IF entry = "getVideoDetails" THEN f.description ELSE "",
                        subtitles |-> subtitles, error |-> NoError]]

\* const client = createClient(proxyUrl, proxyPort, proxyUsername, proxyPassword)
ProxyCall ==
  /\ pure.fn = "proxy" /\ pure.output.pc = "idle"
  /\ LET o == pure.input.options IN
     pure' = [pure EXCEPT !.output.pc = "watch",
                          !.output.client = createClient(o.proxyUrl, o.proxyPort,
                                                         o.proxyUsername, o.proxyPassword)]
  /\ UNCHANGED <<isServerless, now, cachedApiKey, cacheTimestamp, call, dual, keyCalls>>

\* client.get of the watch page, then everything up to the caption request.
\* axios rejects on a transport error and on a status outside 2xx; a
\* request that never answers leaves the call pending.
WatchAnswered(f, entry, l, raw) ==
  LET g == [f EXCEPT !.sent = Append(@, Sent("watch", f.client.httpsAgent))] IN
  IF raw.kind = "hang" THEN [g EXCEPT !.pc = "pending"]
  ELSE IF raw.kind = "neterr" \/ ~raw.ok
    THEN [g EXCEPT !.pc = "done",
                   !.result = [NoResult EXCEPT !.kind = "threw",
                                               !.error = PlainError("Request failed")]]
  ELSE
    LET data == Val(raw.body)
        h == [g EXCEPT !.title = IF IsNull(data.title) THEN NoTitle ELSE Val(data.title),
                       !.description = IF IsNull(data.description) THEN NoDescription
                                       ELSE Val(data.description)] IN
    IF ~data.includesWord \/ IsNull(data.captionTracks) THEN ProxyReturn(h, entry, <<>>)
    ELSE
      LET subtitle == SelectTrack(Val(data.captionTracks), l) IN
      IF IsNull(subtitle) \/ Val(subtitle).baseUrl = "" THEN ProxyReturn(h, entry, <<>>)
      ELSE [h EXCEPT !.pc = "caption", !.subtitle = subtitle]

ProxyWatch ==
  /\ pure.fn = "proxy" /\ pure.output.pc = "watch"
  /\ \E raw \in WatchNet :
       LET f == WatchAnswered(pure.output, pure.input.entry, pure.lang, raw) IN
       pure' = [pure EXCEPT !.output = f, !.done = f.pc = "done"]
  /\ UNCHANGED <<isServerless, now, cachedApiKey, cacheTimestamp, call, dual, keyCalls>>

\* await fetch(subtitle.baseUrl): the global fetch, which knows nothing of
\* the client; the body is parsed whatever the status
CaptionFetched(f, entry, raw) ==
  LET g == [f EXCEPT !.sent = Append(@, Sent("timedtext", Null))] IN
  IF raw.kind = "hang" THEN [g EXCEPT !.pc = "pending"]
  ELSE IF raw.kind = "neterr"
    THEN [g EXCEPT !.pc = "done",
                   !.result = [NoResult EXCEPT !.kind = "threw",
                                               !.error = PlainError("fetch failed")]]
  ELSE ProxyReturn(g, entry, extractSubtitlesFromXML(raw.body))

ProxyCaption ==
  /\ pure.fn = "proxy" /\ pure.output.pc = "caption"
  /\ \E raw \in SubNet :
       LET f == CaptionFetched(pure.output, pure.input.entry, raw) IN
       pure' = [pure EXCEPT !.output = f, !.done = f.pc = "done"]
  /\ UNCHANGED <<isServerless, now, cachedApiKey, cacheTimestamp, call, dual, keyCalls>>

NextProxy ==
  \/ ProxyCall
  \/ ProxyWatch
  \/ ProxyCaption

SpecProxy == InitProxy /\ [][NextProxy]_vars


(***************************************************************************)
(* Logging of the dual-extraction variant (src/unnamed/part_003, lines     *)
(* 268-969): every message goes through debug, the logger createLogger     *)
(* returns for the namespace youtube-caption-extractor.  DEBUG is a        *)
(* sequence of tokens, one of which may be the namespace.  pure.input is   *)
(* process.env.DEBUG (Null when unset), pure.output what console.log has   *)
(* written.                                                                *)
(***************************************************************************)
namespace == "youtube-caption-extractor"

DebugEnvs ==
  { Null, Some(<<>>), Some(<<"*">>), Some(<<"app">>), Some(<<"app", "*">>),
    Some(<<namespace>>), Some(<<"app", ",", namespace>>) }

\* debugEnv === '*' || debugEnv.includes(namespace), with env.DEBUG || ''
isDebugEnabled(env) ==
  LET debugEnv == IF IsNull(env) THEN <<>> ELSE Val(env) IN
  debugEnv = <<"*">> \/ \E i \in 1..Len(debugEnv) : debugEnv[i] = namespace

\* faulty variant: the logger writes whatever DEBUG holds
debug_Unconditional(console, env, message) == Append(console, message)

\* the function createLogger returns
debug(console, env, message) ==
  IF isDebugEnabled(env) THEN Append(console, message) ELSE console

\* the debug calls of a handler, in order
DebugAll(console, env, messages) ==
  LET F[i \in 0..Len(messages)] ==
        IF i = 0 THEN console ELSE debug(F[i - 1], env, messages[i]) IN
  F[Len(messages)]

\* the messages of the public entry point and of the first fetchInnerTube
CallMessages(entry) ==
  << IF entry = "getVideoDetails" THEN "Getting video details" ELSE "Getting subtitles",
     "Calling InnerTube endpoint" >>

\* the messages between two awaits of a call: d is the frame before the
\* answer, f the frame after it
StepMessages(d, f) ==
  (IF d.pc \in {"player", "next"} /\ ~IsNull(f.playerData) /\ f.pc # "next"
     THEN <<"Player API success">> ELSE <<>>)
  \o (IF Len(f.caught) > Len(d.caught)
        THEN << IF d.pc = "transcript" THEN "Transcript API failed" ELSE "Caption fallback failed" >>
        ELSE <<>>)
  \o (IF f.pc = "next" THEN <<"LOGIN_REQUIRED status, trying next endpoint",
                              "Calling InnerTube endpoint">>
      ELSE IF f.pc = "transcript" THEN <<"Found continuation token, calling get_transcript",
                                         "Calling InnerTube endpoint">>
      ELSE IF f.pc = "captions" THEN <<"Using caption track">>
      ELSE IF f.pc = "done" /\ f.result.kind = "threw"
        THEN << IF f.entry = "getVideoDetails" THEN "Error in getVideoDetails"
                ELSE "Error getting subtitles" >>
      ELSE IF f.pc = "done" /\ f.entry = "getVideoDetails"
        THEN <<"Video title">>
             \o (IF Len(f.result.subtitles) = 0 THEN <<"No subtitles found for video">>
                  ELSE <<>>)
      ELSE <<>>)

InitLog ==
  /\ isServerless = FALSE
  /\ now = 0
  /\ cachedApiKey = Null
  /\ cacheTimestamp = 0
  /\ call = IdleCall
  /\ dual = IdleDual
  /\ keyCalls = [p \in Procs |-> IdleKeyCall]
  /\ pure \in { PureInput("log", env, <<>>) : env \in DebugEnvs }

LogCall ==
  /\ pure.fn = "log" /\ dual.pc = "idle"
  /\ \E e \in Entries, l \in Langs :
       /\ dual' = [IdleDual EXCEPT !.pc = "player", !.entry = e, !.lang = l]
       /\ pure' = [pure EXCEPT !.output = DebugAll(@, pure.input, CallMessages(e))]
  /\ UNCHANGED <<keyCalls, isServerless, now, cachedApiKey, cacheTimestamp, call>>

\* the call goes on from f's await to the next one, logging on its way
Logged(f) ==
  /\ dual' = f
  /\ pure' = [pure EXCEPT !.output = DebugAll(@, pure.input, StepMessages(dual, f)),
                          !.done = f.pc = "done"]
  /\ UNCHANGED <<keyCalls, isServerless, now, cachedApiKey, cacheTimestamp, call>>

LogPlayer ==
  /\ pure.fn = "log" /\ dual.pc = "player"
  /\ \E raw \in DualPlayerNet : Logged(PlayerAnswered(dual, raw))

LogNext ==
  /\ pure.fn = "log" /\ dual.pc = "next"
  /\ \E raw \in DualNextNet : Logged(NextAnswered(dual, raw))

LogTranscript ==
  /\ pure.fn = "log" /\ dual.pc = "transcript"
  /\ \E raw \in DualTranscriptNet : Logged(TranscriptAnswered(dual, raw))

LogCaption ==
  /\ pure.fn = "log" /\ dual.pc = "captions"
  /\ \E raw \in SubNet : Logged(CaptionAnswered(dual, raw))

NextLog ==
  \/ LogCall
  \/ LogPlayer
  \/ LogNext
  \/ LogTranscript
  \/ LogCaption

SpecLog == InitLog /\ [][NextLog]_vars


(***************************************************************************)
(* The HTTP route of the sample application (GET /api/videoDetails): it    *)
(* reads videoID and lang from the query, calls getVideoDetails of the     *)
(* package and answers with JSON.  pure.input is the query (Null: the      *)
(* parameter is absent), pure.output the route's frame: the number of      *)
(* getVideoDetails calls it made and the response it gave.                 *)
(***************************************************************************)
Queries ==
  [ videoID : { Null, Some(""), Some("v1") },
    lang : { Null, Some(<<>>) } \cup { Some(l) : l \in Langs } ]

\* NextResponse.json(body, { status })
Json(body, status) == [ status |-> status, body |-> body ]

\* faulty variant: the route hides the message
RouteCatch_Generic(error) == Json([error |-> "Internal Server Error"], 500)

\* catch (error): { error: error.message }, status 500
RouteCatch(error) == Json([error |-> error.message], 500)

IdleRoute == [ pc |-> "idle", calls |-> 0, response |-> Null ]

InitRoute ==
  /\ isServerless = FALSE
  /\ now = 0
  /\ cachedApiKey = Null
  /\ cacheTimestamp = 0
  /\ call = IdleCall
  /\ dual = IdleDual
  /\ keyCalls = [p \in Procs |-> IdleKeyCall]
  /\ pure \in { [PureInput("route", q, <<>>) EXCEPT !.output = IdleRoute] : q \in Queries }

\* GET up to the await of getVideoDetails
RouteGet ==
  /\ pure.fn = "route" /\ pure.output.pc = "idle"
  /\ LET videoID == pure.input.videoID
         lang == IF IsNull(pure.input.lang) \/ Val(pure.input.lang) = <<>>
                   THEN <<"e", "n">> ELSE Val(pure.input.lang) IN
     IF IsNull(videoID) \/ Val(videoID) = ""
       THEN /\ pure' = [pure EXCEPT !.output.pc = "answered", !.done = TRUE,
                                    !.output.response =
                                       Some(Json([error |-> "Missing videoID"], 400))]
            /\ dual' = dual
       ELSE /\ pure' = [pure EXCEPT !.output.pc = "await", !.output.calls = @ + 1]
            /\ dual' = [IdleDual EXCEPT !.pc = "player", !.entry = "getVideoDetails",
                                        !.lang = lang]
  /\ UNCHANGED <<keyCalls, isServerless, now, cachedApiKey, cacheTimestamp, call>>

\* getVideoDetails has settled: 200 with { videoDetails }, or the catch
RouteRespond ==
  /\ pure.fn = "route" /\ pure.output.pc = "await"
  /\ dual.pc = "done"
  /\ LET r == dual.result
         videoDetails == [title |-> r.title, description |-> r.description,
                          subtitles |-> r.subtitles] IN
     pure' = [pure EXCEPT !.output.pc = "answered", !.done = TRUE,
                          !.output.response =
                             IF r.kind = "threw" THEN Some(RouteCatch(r.error))
                             ELSE Some(Json([videoDetails |-> videoDetails], 200))]
  /\ UNCHANGED <<dual, keyCalls, isServerless, now, cachedApiKey, cacheTimestamp, call>>

NextRoute ==
  \/ RouteGet
  \/ PlayerFetch
  \/ NextFetch
  \/ TranscriptFetch
  \/ CaptionFetch
  \/ RouteRespond

SpecRoute == InitRoute /\ [][NextRoute]_vars


(***************************************************************************)
(* Vocabulary of the properties.                                           *)
(***************************************************************************)
Log == call.passLog
NClients == Len(clientTypes(isServerless))
InPass == call.pc \in {"apikey", "keyfetch", "keywait", "player"}

\* a logged attempt whose request succeeded with a body that has none of
\* captions, videoDetails, streamingData / that has one of them
Insufficient(e) == ~IsNull(e.data) /\ ~HasData(Val(e.data))
Valid(e) == ~IsNull(e.data) /\ HasData(Val(e.data))

VideoContext == "Video data fetch with multi-client fallback"
KeyContext == "Dynamic API key fetch"
SubtitleContext == "Subtitle fetch"

\* the data of the last logged response with more than RETAIN_KEYS keys
LastBig(log) ==
  LET big == { i \in 1..Len(log) : ~IsNull(log[i].data) /\ KeyCount(Val(log[i].data)) > RETAIN_KEYS } IN
  IF big = {} THEN Null ELSE log[CHOOSE i \in big : \A j \in big : j <= i].data

(***************************************************************************)
(* C1: within one pass, a valid response ends the pass: it is the last     *)
(* profile requested in that pass and it is what fetchVideoData returns.   *)
(***************************************************************************)
C1_ValidEndsPass ==
  \A i \in 1..Len(Log) :
     Valid(Log[i]) => /\ i = Len(Log)
                      /\ call.pc = "vdone"
                      /\ call.playerData = Log[i].data

\* the second profile answered with a valid response, one profile is left
C1_Witness ==
  /\ call.pc = "vdone"
  /\ Len(Log) = 2
  /\ Insufficient(Log[1])
  /\ Valid(Log[2])

(***************************************************************************)
(* C2: when every profile of a pass answered with an insufficient response *)
(* and one of them was retained, fetchVideoData returns a retained         *)
(* candidate and does not throw.                                           *)
(***************************************************************************)
C2_AllInsufficientReturnsCandidate ==
  ( /\ Len(Log) = NClients
    /\ \A i \in 1..Len(Log) : Insufficient(Log[i])
    /\ \E i \in 1..Len(Log) : Log[i].retained )
  => /\ call.pc = "vdone"
     /\ call.result.kind # "threw"
     /\ \E i \in 1..Len(Log) : Log[i].retained /\ call.playerData = Log[i].data

\* three insufficient responses, the first retained and the last not
C2_Witness ==
  /\ call.pc = "vdone"
  /\ Len(Log) = NClients
  /\ \A i \in 1..Len(Log) : Insufficient(Log[i])
  /\ Log[1].retained
  /\ ~Log[NClients].retained
  /\ call.playerData = Log[1].data

(***************************************************************************)
(* C3, as claimed: every insufficient response met during the pass is      *)
(* retained as the last-resort candidate.                                  *)
(***************************************************************************)
C3_EveryInsufficientRetained ==
  \A i \in 1..Len(Log) : Insufficient(Log[i]) => Log[i].retained

(***************************************************************************)
(* C3, amended: the candidate is the last response of the pass with more   *)
(* than 5 top-level keys (none if there is none): an insufficient response *)
(* with more than 5 keys is retained, a smaller one is not; either way the *)
(* pass goes on with the next profile.                                     *)
(***************************************************************************)
C3_RetainedIffManyKeys ==
  /\ (Len(Log) > 0) => call.lastValidResponse = LastBig(Log)
  /\ (Len(Log) > 0 /\ Len(Log) < NClients /\ Insufficient(Log[Len(Log)]))
       => (InPass /\ call.clientIdx = Len(Log) + 1)

\* a retained response followed by a small insufficient one, which is not retained
C3_Witness ==
  /\ call.pc = "apikey"
  /\ Len(Log) = 2
  /\ Insufficient(Log[1]) /\ Insufficient(Log[2])
  /\ KeyCount(Val(Log[1].data)) > RETAIN_KEYS
  /\ KeyCount(Val(Log[2].data)) <= RETAIN_KEYS
  /\ call.lastValidResponse = Log[1].data

(***************************************************************************)
(* C4: a profile whose request fails (transport error, timeout, non-2xx)   *)
(* leaves the candidate as it was, retains nothing, and the pass goes on   *)
(* with the next profile.                                                  *)
(***************************************************************************)
RequestFailed(n) == n.target = "player" /\ (n.kind \in {"hang", "neterr"} \/ ~n.ok)

C4_FailedRetainsNothing ==
  [][ (call.pc = "player" /\ call'.net # call.net /\ RequestFailed(call'.net))
      => /\ call'.lastValidResponse = call.lastValidResponse
         /\ Len(call'.passLog) = Len(call.passLog) + 1
         /\ call'.passLog[Len(call'.passLog)].data = Null
         /\ ~call'.passLog[Len(call'.passLog)].retained
         /\ (call.clientIdx < NClients
               => call'.pc = "apikey" /\ call'.clientIdx = call.clientIdx + 1) ]_vars

\* a timed-out request after a response was retained
C4_Witness ==
  /\ call.pc = "apikey"
  /\ Len(Log) = 2
  /\ call.net.target = "player" /\ call.net.kind = "hang"
  /\ ~IsNull(call.lastValidResponse)
  /\ call.lastValidResponse = Log[1].data

(***************************************************************************)
(* C5: when the profiles of a pass all failed or were insufficient and no  *)
(* candidate is left, the pass ends in one aggregate error naming every    *)
(* profile attempted; it is the error fetchVideoData throws once its       *)
(* retries are used up, and fetchVideoData throws nothing else.            *)
(***************************************************************************)
Named(e) == { e.clients[i] : i \in 1..Len(e.clients) }
Attempted == { Log[i].client : i \in 1..Len(Log) }

PassExhausted ==
  /\ call.pc \in {"vwait", "done"}
  /\ Len(Log) = NClients
  /\ \A i \in 1..Len(Log) : ~Valid(Log[i])
  /\ IsNull(call.lastValidResponse)

C5_AggregateErrorNamesAll ==
  /\ PassExhausted
       => /\ call.lastError.message = "All clients failed to retrieve video data"
          /\ Named(call.lastError) = Attempted
          /\ Cardinality(Attempted) = NClients
          /\ (call.pc = "done")
               => /\ call.result.kind = "threw"
                  /\ call.result.error.context = VideoContext
                  /\ call.result.error.message = call.lastError.message
                  /\ Named(call.result.error) = Attempted
  /\ (call.result.kind = "threw" /\ call.result.error.context = VideoContext)
       => PassExhausted

\* the last pass had failed and insufficient profiles, and the call threw
C5_Witness ==
  /\ call.pc = "done"
  /\ call.result.kind = "threw"
  /\ call.result.error.context = VideoContext
  /\ Named(call.result.error) = {"WEB", "ANDROID", "IOS"}
  /\ \E i \in 1..Len(Log) : Insufficient(Log[i])
  /\ \E i \in 1..Len(Log) : IsNull(Log[i].data)

(***************************************************************************)
(* C6, as claimed: a response is insufficient when the HTTP call succeeded *)
(* with a near-empty or error-status payload, and failed only when the     *)
(* request itself errored or timed out.                                    *)
(***************************************************************************)
LastClass == Log[Len(Log)].class

\* the state right after a player request, whose outcome is call.net
JustRequested == call.net.target = "player" /\ Len(Log) > 0

C6_ErrorStatusIsInsufficient ==
  JustRequested =>
    /\ (LastClass = "failed")
         <=> (call.net.kind \in {"hang", "neterr"} \/ ~call.net.ok \/ ~call.net.parsed)
    /\ (LastClass = "insufficient")
         <=> (call.net.ok /\ call.net.parsed /\ (~call.net.hasData \/ call.net.status = "ERROR"))

(***************************************************************************)
(* C6, amended: each response is exactly one of valid, insufficient or     *)
(* failed.  It is failed when the request errored, timed out or answered   *)
(* non-2xx, when the body is not a JSON object, or when the body carries   *)
(* playabilityStatus.status = ERROR; otherwise valid when the body has     *)
(* captions, videoDetails or streamingData; otherwise insufficient.        *)
(***************************************************************************)
C6_Classification ==
  JustRequested =>
    LET n == call.net
        good == n.kind = "response" /\ n.ok /\ n.parsed /\ n.status # "ERROR" IN
    /\ LastClass \in {"valid", "insufficient", "failed"}
    /\ (LastClass = "failed") <=> ~good
    /\ (LastClass = "valid") <=> (good /\ n.hasData)
    /\ (LastClass = "insufficient") <=> (good /\ ~n.hasData)
    /\ (LastClass = "failed") <=> IsNull(Log[Len(Log)].data)

\* a 2xx response whose body has video data and status ERROR counts as failed
C6_Witness ==
  /\ JustRequested
  /\ call.net.ok /\ call.net.parsed /\ call.net.hasData
  /\ call.net.status = "ERROR"
  /\ LastClass = "failed"

(***************************************************************************)
(* C7: withRetry invokes its operation at most maxRetries + 1 times, stops *)
(* at the first success, and has invoked it exactly maxRetries + 1 times   *)
(* when it throws.                                                         *)
(***************************************************************************)
Stages == {"video", "key", "subtitle"}

C7_RetryCounts ==
  /\ \A st \in Stages : call.ops[st] <= maxRetries + 1
  \* each attempt invokes the operation once; a success is the last invocation
  /\ (call.pc = "keyfetch") => call.ops.key = call.attempt.key - 1
  /\ (call.pc = "keywait") => (call.ops.key = call.attempt.key /\ call.attempt.key <= maxRetries)
  /\ (call.pc = "subfetch") => call.ops.subtitle = call.attempt.subtitle - 1
  /\ (call.pc = "swait") => (call.ops.subtitle = call.attempt.subtitle
                              /\ call.attempt.subtitle <= maxRetries)
  /\ (call.pc = "vwait") => (call.ops.video = call.attempt.video /\ call.attempt.video <= maxRetries)
  /\ (call.pc = "vdone") => call.ops.video = call.attempt.video
  /\ (call.pc = "player" /\ call.net.target = "sw.js_data" /\ ~call.net.threw
        /\ call.apiKey # Some(FALLBACK_INNERTUBE_API_KEY))
       => call.ops.key = call.attempt.key
  /\ (call.pc = "done" /\ call.result.kind = "returned" /\ call.net.target = "timedtext")
       => call.ops.subtitle = call.attempt.subtitle
  \* a withRetry that throws has used all its attempts
  /\ (call.keyError.context = KeyContext) => call.ops.key = maxRetries + 1
  /\ (call.result.kind = "threw" /\ call.result.error.context = VideoContext)
       => call.ops.video = maxRetries + 1
  /\ (call.result.kind = "threw" /\ call.result.error.context = SubtitleContext)
       => call.ops.subtitle = maxRetries + 1

\* the subtitle fetch succeeded at its second attempt and was not invoked again
C7_Witness ==
  /\ call.pc = "done"
  /\ call.result.kind = "returned"
  /\ call.net.target = "timedtext"
  /\ call.ops.subtitle = 2

(***************************************************************************)
(* C8, as claimed: for each of the three stages, the credential fetch      *)
(* included, exhausting the stage's retries surfaces to the caller of      *)
(* getSubtitles / getVideoDetails an error identifying the stage.          *)
(***************************************************************************)
Surfaced(context) ==
  /\ call.pc = "done"
  /\ call.result.kind = "threw"
  /\ call.result.error.context = context
  /\ call.result.error.attempts = maxRetries + 1

KeyExhausted == call.keyError.context = KeyContext
VideoExhausted == PassExhausted /\ call.ops.video = maxRetries + 1
SubtitleExhausted ==
  /\ call.net.target = "timedtext"
  /\ (call.net.threw \/ ~call.net.ok)
  /\ call.ops.subtitle = maxRetries + 1

C8_EveryStageSurfaces ==
  /\ KeyExhausted => Surfaced(KeyContext)
  /\ VideoExhausted => Surfaced(VideoContext)
  /\ SubtitleExhausted => Surfaced(SubtitleContext)

(***************************************************************************)
(* C8, amended: exhausting the retries of the video-data fetch or of the   *)
(* caption-payload fetch surfaces to the caller an error identifying that  *)
(* stage, and the caller sees no other error; exhausting the retries of    *)
(* the credential fetch surfaces nothing: getApiKey substitutes the        *)
(* hardcoded key and the call goes on with the player request.             *)
(***************************************************************************)
C8_VideoAndSubtitleSurface ==
  /\ VideoExhausted => Surfaced(VideoContext)
  /\ SubtitleExhausted => Surfaced(SubtitleContext)
  /\ (call.result.kind = "threw")
       => /\ call.result.error.context \in {VideoContext, SubtitleContext}
          /\ call.result.error.message # ""
          /\ (Surfaced(VideoContext) => VideoExhausted)
          /\ (Surfaced(SubtitleContext) => SubtitleExhausted)
  /\ KeyExhausted => /\ call.pc = "player"
                      /\ call.apiKey = Some(FALLBACK_INNERTUBE_API_KEY)
                      /\ call.result.kind = "pending"

\* getVideoDetails ends with the error of the caption-payload stage
C8_Witness ==
  /\ call.entry = "getVideoDetails"
  /\ SubtitleExhausted
  /\ Surfaced(SubtitleContext)

(***************************************************************************)
(* C9: each stage runs under its own retry budget.  Every withRetry starts *)
(* at attempt 1 and throws only after maxRetries + 1 invocations of its    *)
(* own, whatever the other stages have used; the attempts of the           *)
(* credential fetch leave the attempt count of the video-data fetch alone; *)
(* and a retry of the caption-payload fetch re-runs neither the video-data *)
(* fetch nor the track selection.                                          *)
(***************************************************************************)
C9_OwnBudget ==
  /\ (call.pc = "keyfetch" /\ call.ops.key = 0) => call.attempt.key = 1
  /\ (call.pc = "subfetch" /\ call.ops.subtitle = 0) => call.attempt.subtitle = 1
  /\ KeyExhausted => call.ops.key = maxRetries + 1
  /\ Surfaced(SubtitleContext) => call.ops.subtitle = maxRetries + 1
  /\ Surfaced(VideoContext) => call.ops.video = maxRetries + 1

C9_KeyStep ==
  (call.pc \in {"keyfetch", "keywait"})
    => /\ call'.attempt.video = call.attempt.video
       /\ call'.ops.video = call.ops.video
       /\ call'.attempt.subtitle = call.attempt.subtitle

C9_SubtitleStep ==
  (call.pc \in {"subfetch", "swait"})
    => /\ call'.pc \in {"subfetch", "swait", "done"}
       /\ call'.ops.video = call.ops.video
       /\ call'.attempt.video = call.attempt.video
       /\ call'.ops.key = call.ops.key
       /\ call'.captionTracks = call.captionTracks
       /\ call'.subtitle = call.subtitle
       /\ call'.playerData = call.playerData

C9_IndependentBudgets ==
  /\ [](C9_OwnBudget)
  /\ [][C9_KeyStep /\ C9_SubtitleStep]_vars

\* the caption-payload fetch is retrying with attempts left, after the
\* video-data fetch used every one of its own
C9_Witness ==
  /\ call.pc = "swait"
  /\ call.ops.video = maxRetries + 1
  /\ call.ops.subtitle = 2
  /\ call.attempt.subtitle <= maxRetries

(***************************************************************************)
(* C10.  Every outbound network call made during getSubtitles or           *)
(* getVideoDetails is individually guarded by a timeout, and a call that   *)
(* times out is treated as a failed call: an error is raised for it and    *)
(* the call does not stay pending.  Stated over the request just made, in  *)
(* either variant.  The multi-client variant satisfies it (every request   *)
(* goes through fetchWithTimeout); the dual-extraction variant does not:   *)
(* fetchInnerTube and getSubtitlesFromCaptions call fetch without signal   *)
(* or timer.                                                               *)
(***************************************************************************)
C10_EveryCallGuarded ==
  /\ call.net.target # "" =>
       /\ ~IsNull(call.net.timeout)
       /\ (call.net.kind = "hang" => call.net.threw)
  /\ dual.net.target # "" =>
       /\ ~IsNull(dual.net.timeout)
       /\ (dual.net.kind = "hang" => dual.net.threw /\ dual.pc # "pending")

(***************************************************************************)
(* C11.  getDynamicApiKey returns the cached key without issuing a network *)
(* request if and only if a key is cached and now - cacheTimestamp is      *)
(* strictly less than 30 minutes; otherwise it goes on to fetch a key      *)
(* (every attempt issues the sw.js_data request), and a successful fetch   *)
(* stores the key together with the time read at the start of the call.    *)
(***************************************************************************)
C11_Step ==
  /\ call.pc = "apikey" =>
       LET fresh == cachedApiKey # Null /\ now' - cacheTimestamp < 30 * 60 * 1000 IN
       /\ fresh <=> (call'.pc = "player" /\ call'.apiKey = cachedApiKey
                      /\ call'.net.target = "")
       /\ ~fresh <=> (call'.pc = "keyfetch" /\ call'.ops.key = 0)
       /\ UNCHANGED <<cachedApiKey, cacheTimestamp>>
  /\ call.pc = "keyfetch" =>
       /\ call'.net.target = "sw.js_data"
       /\ call'.ops.key = call.ops.key + 1
       /\ IF call'.pc = "player" /\ call'.keyError.context # KeyContext
            THEN /\ call'.net.kind = "response" /\ call'.net.ok
                 /\ ~IsNull(call'.apiKey)
                 /\ cachedApiKey' = call'.apiKey
                 /\ cacheTimestamp' = call.now
            ELSE UNCHANGED <<cachedApiKey, cacheTimestamp>>

C11_CachedIffFresh == [][C11_Step]_vars

\* the cached key is handed out, no request made, half a cache duration
\* after it was stored
C11_Witness ==
  /\ call.pc = "player"
  /\ call.net.target = ""
  /\ call.apiKey = cachedApiKey
  /\ cachedApiKey # Null
  /\ call.now - cacheTimestamp = TickMs

(***************************************************************************)
(* C12.  getApiKey never throws: while the credential is being obtained    *)
(* the call never ends, and when the dynamic fetch has failed after all    *)
(* its retries the hardcoded key is what the player request is made with;  *)
(* what becomes of that attempt is decided by the player response alone.   *)
(***************************************************************************)
C12_KeyStep ==
  call.pc \in {"apikey", "keyfetch", "keywait"} =>
    /\ call'.pc \in {"keyfetch", "keywait", "player"}
    /\ call'.result.kind = "pending"
    /\ call'.passLog = call.passLog

C12_State ==
  /\ KeyExhausted =>
       /\ call.pc = "player"
       /\ call.ops.key = maxRetries + 1
       /\ call.apiKey = Some(FALLBACK_INNERTUBE_API_KEY)
  /\ call.pc = "player" => ~IsNull(call.apiKey)
  /\ JustRequested =>
       /\ ~IsNull(call.net.key)
       /\ LastClass = "failed" <=>
            (RequestFailed(call.net) \/ ~call.net.parsed \/ call.net.status = "ERROR")

C12_GetApiKeyNeverThrows == [](C12_State) /\ [][C12_KeyStep]_vars

\* the player request made with the hardcoded key brought a valid response
C12_Witness ==
  /\ JustRequested
  /\ call.net.key = Some(FALLBACK_INNERTUBE_API_KEY)
  /\ LastClass = "valid"

(***************************************************************************)
(* C13.  Under any interleaving of concurrent getApiKey calls, without a   *)
(* lock: every call that has returned, returned the hardcoded key or a key *)
(* some call obtained by a successful fetch; the cache is empty or holds   *)
(* the key and the timestamp of one and the same call that fetched         *)
(* successfully; and a write replaces both with the writer's own (last     *)
(* write wins).                                                            *)
(***************************************************************************)
Fetched(q) == ~IsNull(keyCalls[q].apiKey)

C13_State ==
  /\ \A p \in Procs :
       keyCalls[p].pc = "done" =>
         \/ keyCalls[p].from = "fallback"
              /\ keyCalls[p].returned = Some(FALLBACK_INNERTUBE_API_KEY)
         \/ \E q \in Procs : Fetched(q) /\ keyCalls[p].returned = keyCalls[q].apiKey
  /\ \/ cachedApiKey = Null /\ cacheTimestamp = 0
     \/ \E q \in Procs :
          /\ Fetched(q) /\ keyCalls[q].stored
          /\ cachedApiKey = keyCalls[q].apiKey
          /\ cacheTimestamp = keyCalls[q].now

C13_Write ==
  \A p \in Procs :
    (keyCalls[p].pc = "store" /\ keyCalls'[p].pc = "done") =>
      /\ cachedApiKey' = keyCalls[p].apiKey
      /\ cacheTimestamp' = keyCalls[p].now
      /\ keyCalls'[p].returned = keyCalls[p].apiKey

C13_ConcurrentRefresh == [](C13_State) /\ [][C13_Write]_vars

\* two calls fetched different keys concurrently; the call that began later
\* wrote first, and the cache now holds the key and the (earlier) timestamp
\* of the last writer
C13_Witness ==
  \E p, q \in Procs :
    /\ p # q
    /\ keyCalls[p].stored /\ keyCalls[q].stored
    /\ keyCalls[p].apiKey # keyCalls[q].apiKey
    /\ keyCalls[p].now < keyCalls[q].now
    /\ cachedApiKey = keyCalls[p].apiKey
    /\ cacheTimestamp = keyCalls[p].now
    /\ now > cacheTimestamp

(***************************************************************************)
(* C14.  Track selection is prioritized, for any track list and lang: if a *)
(* track with vssId = "." + lang exists the first such track is selected;  *)
(* otherwise, if a track with vssId = "a." + lang exists, the first such   *)
(* track is selected; only otherwise does anything else decide (and then   *)
(* the selection is a track of the list or none).  In particular           *)
(* [".fr", "a.en", ".en"] with lang "en" gives the ".en" track and         *)
(* ["a.en"] gives the "a.en" track.  Both selectors (getSubtitles of the   *)
(* multi-client variant, getSubtitlesFromCaptions) are covered.            *)
(***************************************************************************)
ManualIdx(tracks, l) == { i \in 1..Len(tracks) : tracks[i].vssId = <<".">> \o l }
AutoIdx(tracks, l) == { i \in 1..Len(tracks) : tracks[i].vssId = <<"a", ".">> \o l }
First(S) == CHOOSE i \in S : \A j \in S : i <= j

Prioritized(tracks, l, out) ==
  IF ManualIdx(tracks, l) # {} THEN out = Some(tracks[First(ManualIdx(tracks, l))])
  ELSE IF AutoIdx(tracks, l) # {} THEN out = Some(tracks[First(AutoIdx(tracks, l))])
  ELSE out = Null \/ \E i \in 1..Len(tracks) : out = Some(tracks[i])

Selected == pure.fn = "select" /\ pure.done

VssIdsOf(tracks) == [i \in 1..Len(tracks) |-> tracks[i].vssId]

C14_SelectionPrioritized ==
  Selected =>
    /\ Prioritized(pure.input, pure.lang, pure.output.multi)
    /\ Prioritized(pure.input, pure.lang, pure.output.dual)
    /\ (VssIdsOf(pure.input) = << <<".", "f", "r">>, <<"a", ".", "e", "n">>, <<".", "e", "n">> >>
          /\ pure.lang = <<"e", "n">>)
         => Val(pure.output.multi).vssId = <<".", "e", "n">>
    /\ (VssIdsOf(pure.input) = << <<"a", ".", "e", "n">> >> /\ pure.lang = <<"e", "n">>)
         => Val(pure.output.multi).vssId = <<"a", ".", "e", "n">>

\* [".fr", "a.en", ".en"] and "en": the third track, in both variants
C14_Witness ==
  /\ Selected
  /\ pure.lang = <<"e", "n">>
  /\ VssIdsOf(pure.input) = << <<".", "f", "r">>, <<"a", ".", "e", "n">>, <<".", "e", "n">> >>
  /\ pure.output.multi = Some(pure.input[3])
  /\ pure.output.dual = Some(pure.input[3])

(***************************************************************************)
(* C15.  The third selection step is a literal substring match: when no    *)
(* exact manual or auto-generated track exists, the track getSubtitles of  *)
(* the multi-client variant selects has a vssId that contains the literal  *)
(* string "." + lang.  (The code passes the string to String.match, which  *)
(* reads it as a regular expression: the dot matches any character.)       *)
(***************************************************************************)
ContainsLiteral(vssId, l) ==
  \E i \in 1..Len(vssId) :
     /\ i + Len(l) <= Len(vssId)
     /\ SubSeq(vssId, i, i + Len(l)) = <<".">> \o l

C15_LooseMatchIsLiteral ==
  (/\ Selected
   /\ ManualIdx(pure.input, pure.lang) = {}
   /\ AutoIdx(pure.input, pure.lang) = {}
   /\ ~IsNull(pure.output.multi))
    => ContainsLiteral(Val(pure.output.multi).vssId, pure.lang)

(***************************************************************************)
(* C16.  When the video-data fetch has succeeded and fetchCaptionTracks    *)
(* yields an empty track list, getSubtitles returns the empty list, for    *)
(* any lang: it does not throw and it issues no caption-payload request.   *)
(***************************************************************************)
C16_Step ==
  (/\ call.entry = "getSubtitles"
   /\ call.pc = "vdone"
   /\ ExtractTracks(Val(call.playerData)) = <<>>)
    => /\ call'.pc = "done"
       /\ call'.result.kind = "returned"
       /\ call'.result.subtitles = <<>>
       /\ call'.ops.subtitle = 0
       /\ call'.net.target # "timedtext"

C16_NoTracksReturnsEmpty == [][C16_Step]_vars

\* getSubtitles has returned [] on a player response without tracks
C16_Witness ==
  /\ call.entry = "getSubtitles"
  /\ call.pc = "done"
  /\ call.result.kind = "returned"
  /\ call.result.subtitles = <<>>
  /\ call.captionTracks = <<>>
  /\ IsNull(call.subtitle)
  /\ call.ops.video >= 1
  /\ call.ops.subtitle = 0

(***************************************************************************)
(* C17.  When the video has caption tracks but none matches the requested  *)
(* language under selection steps 1-3 (vssId equal to "." + lang, equal to *)
(* "a." + lang, or containing "." + lang), getSubtitles returns an empty   *)
(* cue list: no caption payload is requested from a track of another       *)
(* language, and a call that ends without cues of the transcript panel     *)
(* has returned the empty list.  Stated for getSubtitles of the            *)
(* dual-extraction variant, whose selection ends with captionTracks[0].    *)
(***************************************************************************)
NoTrackMatches(tracks, l) ==
  /\ Len(tracks) > 0
  /\ \A i \in 1..Len(tracks) : ~ContainsLiteral(tracks[i].vssId, l)

DualNoMatch ==
  /\ dual.entry = "getSubtitles"
  /\ ~IsNull(dual.playerData)
  /\ ~IsNull(Val(dual.playerData).captions)
  /\ NoTrackMatches(Val(Val(dual.playerData).captions), dual.lang)

C17_NoMatchReturnsEmpty ==
  DualNoMatch =>
    /\ dual.pc # "captions"
    /\ dual.net.target # "timedtext"
    /\ (dual.pc = "done" /\ dual.result.kind = "returned"
          /\ dual.net.target # "/get_transcript")
         => dual.result.subtitles = <<>>

(***************************************************************************)
(* C18.  For every caption payload with N well-formed lines and M lines    *)
(* without a start or a dur, extractSubtitlesFromXML returns exactly N     *)
(* cues, in the order of their lines and with their start and dur: a       *)
(* malformed line is skipped and the lines after it are still parsed.      *)
(***************************************************************************)
Parsed == pure.fn = "xml" /\ pure.done

WellFormed(lines) ==
  { i \in 1..Len(lines) : ~IsNull(lines[i].start) /\ ~IsNull(lines[i].dur) }

Rank(S, i) == Cardinality({ j \in S : j <= i })

VisibleCharacters(body) ==
  LET char(t) == IF t = "&amp;" THEN "&"
                 ELSE IF t = "&lt;" THEN "<"
                 ELSE IF t = "&gt;" THEN ">" ELSE t
      F[i \in 0..Len(body)] ==
        IF i = 0 THEN <<>>
        ELSE IF body[i] \in {"<b>", "</b>"} THEN F[i - 1]
        ELSE Append(F[i - 1], char(body[i])) IN
  F[Len(body)]

C19_TextIsVisibleCharacters ==
  (pure.fn = "text" /\ pure.done) =>
    /\ \A i \in 1..Len(pure.output) :
         pure.output[i] \notin {"<b>", "</b>", "&amp;", "&lt;", "&gt;"}
    /\ pure.output = VisibleCharacters(pure.input)
    /\ pure.input = <<"<b>", "Hello", " ", "&amp;", " ", "world", "</b>">>
         => pure.output = <<"Hello", " ", "&", " ", "world">>

(***************************************************************************)
(* C20.  Every cue returned, by the XML parser or by the transcript-panel  *)
(* extractor, has a start, a dur and a text, and a source item whose start *)
(* or duration is absent is dropped rather than returned with a start or   *)
(* duration defaulted to zero: the cues are as many as the source items    *)
(* that carry both (and, for a segment, a renderer and a non-blank text).  *)
(***************************************************************************)
Timed(segments) ==
  { i \in 1..Len(segments) :
      /\ ~IsNull(segments[i].transcriptSegmentRenderer)
      /\ LET renderer == Val(segments[i].transcriptSegmentRenderer) IN
         /\ ~IsNull(renderer.startMs)
         /\ ~IsNull(renderer.endMs)
         /\ \E k \in 1..Len(SegmentText(renderer.snippet)) :
              SegmentText(renderer.snippet)[k] # " " }

C20_AbsentTimesAreDropped ==
  /\ Parsed => Len(pure.output) = Cardinality(WellFormed(pure.input))
  /\ (pure.fn = "segments" /\ pure.done) => Len(pure.output) = Cardinality(Timed(pure.input))

(***************************************************************************)
(* C21.  Every cue returned by the transcript-panel extractor has a        *)
(* non-negative start and a non-negative dur, whatever startMs and endMs   *)
(* the segments carry, missing ones included.                              *)
(***************************************************************************)
SegmentsDone == pure.fn = "segments" /\ pure.done

C21_TimesNonNegative ==
  SegmentsDone =>
    \A i \in 1..Len(pure.output) :
      ~pure.output[i].start.negative /\ ~pure.output[i].dur.negative

(***************************************************************************)
(* C22.  In both parsing strategies the returned cues are an order-        *)
(* preserving image of the source items: there is a strictly increasing    *)
(* map from the cues to the source items under which each cue is made of   *)
(* its one item alone (its times and its text), so that no two items are   *)
(* merged and no two cues change places.                                   *)
(***************************************************************************)
\* the cue a caption line alone gives, and the one a segment alone gives
CueOfLine(line) ==
  [start |-> Val(line.start), dur |-> Val(line.dur), text |-> CueText(line.text)]

CueOfSegment(s) ==
  LET renderer == Val(s.transcriptSegmentRenderer) IN
  [start |-> Seconds(ParseMs(renderer.startMs)),
   dur |-> Seconds(ParseMs(renderer.endMs) - ParseMs(renderer.startMs)),
   text |-> Decode(StripTags(SegmentText(renderer.snippet)))]

Increasing(idx) == \A i, j \in DOMAIN idx : i < j => idx[i] < idx[j]

C22_OrderPreservingImage ==
  /\ Parsed =>
       \E idx \in [1..Len(pure.output) -> 1..Len(pure.input)] :
         /\ Increasing(idx)
         /\ \A i \in 1..Len(pure.output) :
              /\ idx[i] \in WellFormed(pure.input)
              /\ pure.output[i] = CueOfLine(pure.input[idx[i]])
  /\ SegmentsDone =>
       \E idx \in [1..Len(pure.output) -> 1..Len(pure.input)] :
         /\ Increasing(idx)
         /\ \A i \in 1..Len(pure.output) :
              /\ ~IsNull(pure.input[idx[i]].transcriptSegmentRenderer)
              /\ pure.output[i] = CueOfSegment(pure.input[idx[i]])

\* two segments gave two different cues
C22_Witness ==
  /\ SegmentsDone
  /\ Len(pure.input) = 2
  /\ Len(pure.output) = 2
  /\ pure.output[1] # pure.output[2]

(***************************************************************************)
(* C23.  When the /next response holds no transcript panel, or a panel in  *)
(* which none of the supported paths gives a continuation token, the       *)
(* transcript-panel extractor returns without throwing and the call never  *)
(* requests /get_transcript; when a token is found the call requests       *)
(* /get_transcript with it exactly once.                                   *)
(***************************************************************************)
Count(seq, x) == Cardinality({ i \in 1..Len(seq) : seq[i] = x })

\* the token the /next response of the call holds for the extractor
TokenOf(nextData) ==
  IF IsNull(nextData) \/ IsNull(TranscriptPanel(Val(nextData))) THEN Null
  ELSE FindToken(Val(TranscriptPanel(Val(nextData))).content)

C23_State ==
  Count(dual.sent, "/get_transcript") =
    IF ~IsNull(TokenOf(dual.nextData)) /\ dual.pc # "transcript" THEN 1 ELSE 0

\* the step in which the extractor is entered: the /next body has arrived
C23_Enter ==
  (dual.pc = "next" /\ ~IsNull(dual'.nextData)) =>
    IF IsNull(TokenOf(dual'.nextData))
      THEN /\ dual'.pc \in {"captions", "done"}
           /\ dual'.caught = dual.caught
           /\ IsNull(dual'.token)
           /\ dual'.pc = "done" => dual'.result.kind = "returned"
      ELSE /\ dual'.pc = "transcript"
           /\ dual'.token = TokenOf(dual'.nextData)

C23_NoTokenNoRequest == [](C23_State) /\ [][C23_Enter]_vars

\* a transcript panel without token was met and the call went on to the
\* caption track
C23_Witness ==
  /\ dual.pc = "captions"
  /\ ~IsNull(dual.nextData)
  /\ ~IsNull(TranscriptPanel(Val(dual.nextData)))
  /\ IsNull(TokenOf(dual.nextData))
  /\ dual.sent = <<"/player", "/next">>

(***************************************************************************)
(* C24.  The transcript panel and the caption tracks in getSubtitles of    *)
(* the dual-extraction variant.  A usable track is a track selected for    *)
(* the requested language (its vssId contains "." + lang) that has a       *)
(* baseUrl.                                                                *)
(***************************************************************************)
UsableTrack ==
  /\ ~IsNull(dual.playerData)
  /\ ~IsNull(Val(dual.playerData).captions)
  /\ LET subtitle == SelectTrackDual(Val(Val(dual.playerData).captions), dual.lang) IN
     /\ ~IsNull(subtitle)
     /\ Val(subtitle).baseUrl # ""
     /\ ContainsLiteral(Val(subtitle).vssId, dual.lang)

LoginRequired == Val(dual.playerData).status = "LOGIN_REQUIRED"

FromCaptions == dual.sent[Len(dual.sent)] = "timedtext"

\* C24 as stated: whenever the player response carries a usable caption
\* track for the requested language, the list getSubtitles returns comes
\* from the caption-track path and not from the transcript panel.
C24_UsableTrackMeansCaptionPath ==
  (dual.entry = "getSubtitles" /\ dual.pc = "done" /\ dual.result.kind = "returned"
     /\ UsableTrack)
    => FromCaptions

\* C24 amended: with a usable caption track for the requested language,
\* the transcript panel is requested only when the player response has the
\* status LOGIN_REQUIRED; otherwise the list returned comes from the
\* caption-track path alone.  Under LOGIN_REQUIRED the panel is tried
\* first, and the call ends on it only with at least one cue.
C24_State ==
  /\ Count(dual.sent, "/get_transcript") > 0 => LoginRequired
  /\ (dual.entry = "getSubtitles" /\ dual.pc = "done" /\ dual.result.kind = "returned"
        /\ UsableTrack /\ ~LoginRequired)
       => dual.sent = <<"/player", "timedtext">>
  /\ (dual.entry = "getSubtitles" /\ dual.pc = "done" /\ dual.result.kind = "returned"
        /\ UsableTrack /\ ~FromCaptions)
       => /\ LoginRequired
          /\ dual.sent = <<"/player", "/next", "/get_transcript">>
          /\ Len(dual.result.subtitles) > 0

C24_PanelStep ==
  (dual.pc = "transcript" /\ UsableTrack /\ dual'.pc # "pending")
    => \/ dual'.pc = "captions"
       \/ dual'.pc = "done" /\ dual'.result.kind = "returned"
            /\ Len(dual'.result.subtitles) > 0

C24_PanelOnlyUnderLoginRequired == [](C24_State) /\ [][C24_PanelStep]_vars

\* getSubtitles returned the cues of the caption track of a response that
\* was not LOGIN_REQUIRED
C24_Witness ==
  /\ dual.entry = "getSubtitles"
  /\ dual.pc = "done"
  /\ dual.result.kind = "returned"
  /\ UsableTrack
  /\ ~LoginRequired
  /\ Len(dual.result.subtitles) > 0

(***************************************************************************)
(* C25.  In the dual-extraction variant, when the transcript-panel path    *)
(* throws (the /get_transcript request fails, answers with an error status *)
(* or with a body that is not JSON) or yields no cue, the caption-track    *)
(* path is run next: the track is selected and its payload requested, or   *)
(* the empty list is returned when there is none.  The error is kept from  *)
(* the caller: no call ends with an error on the transcript request.       *)
(***************************************************************************)
\* getSubtitlesFromCaptions has been entered in frame d
CaptionPathRun(d) ==
  LET captionTracks == Val(d.playerData).captions
      subtitle == IF IsNull(captionTracks) THEN Null
                  ELSE SelectTrackDual(Val(captionTracks), d.lang) IN
  IF IsNull(subtitle) \/ Val(subtitle).baseUrl = ""
    THEN d.pc = "done" /\ d.result.kind = "returned" /\ d.result.subtitles = <<>>
    ELSE d.pc = "captions" /\ d.subtitle = subtitle

PanelCuesReturned(d) ==
  /\ d.pc = "done"
  /\ d.result.kind = "returned"
  /\ Len(d.result.subtitles) > 0

C25_Step ==
  /\ (dual.pc = "transcript" /\ dual'.pc # "pending") =>
       IF dual'.net.threw \/ ~dual'.net.ok
         THEN CaptionPathRun(dual') /\ Len(dual'.caught) = Len(dual.caught) + 1
         ELSE CaptionPathRun(dual') \/ PanelCuesReturned(dual')
  /\ (dual.pc = "next" /\ ~IsNull(dual'.nextData) /\ IsNull(TokenOf(dual'.nextData)))
       => CaptionPathRun(dual')

C25_State ==
  (dual.pc = "done" /\ dual.result.kind = "threw")
    => dual.sent[Len(dual.sent)] # "/get_transcript"

C25_TranscriptFallsBackToCaptions == [](C25_State) /\ [][C25_Step]_vars

\* the transcript request failed and the caption payload is being requested
C25_Witness ==
  /\ dual.entry = "getSubtitles"
  /\ dual.pc = "captions"
  /\ dual.net.target = "/get_transcript"
  /\ dual.net.threw
  /\ Len(dual.caught) = 1

(***************************************************************************)
(* C26.  For the same language and the same upstream answers, getSubtitles *)
(* and getVideoDetails agree on the subtitles: both return, and the        *)
(* subtitles of getVideoDetails are the list getSubtitles returned, or     *)
(* both fail (both throw, or both wait on a request never answered).       *)
(***************************************************************************)
C26_DetailsAgreeWithSubtitles ==
  (pure.fn = "pair" /\ pure.done) =>
    LET subs == pure.output[1]
        details == pure.output[2] IN
    \/ /\ subs.kind = "returned"
       /\ details.kind = "returned"
       /\ details.subtitles = subs.subtitles
    \/ subs.kind = "threw" /\ details.kind = "threw"
    \/ subs.kind = "pending" /\ details.kind = "pending"

(***************************************************************************)
(* C27.  When none of the locations getVideoDetails reads a description    *)
(* from holds one, the description returned is "No description found";     *)
(* when none of the locations it reads a title from holds one, the title   *)
(* returned is "No title found".  A text location holds something when it  *)
(* is a non-empty string, a runs location when the runs are present.       *)
(***************************************************************************)
DetailsDone == pure.fn = "details" /\ pure.done

\* the candidate locations of the description, as absent (Null) or the
\* text they hold
TextAt(text) == IF text = "" THEN Null ELSE Some(text)
RunsAt(runs) == IF IsNull(runs) THEN Null ELSE Some(JoinRuns(Val(runs)))

ShortDescriptionAt(pd) ==
  IF IsNull(pd.videoDetails) THEN Null ELSE TextAt(Val(pd.videoDetails).shortDescription)

SecondContentAt(nd) ==
  IF Len(ContentsOf(nd)) < 2 THEN Null ELSE RunsAt(SecondaryRuns(ContentsOf(nd)[2]))

PrimaryInfoAt(nd) ==
  IF IsNull(PrimaryAt(ContentsOf(nd), 1)) THEN Null
  ELSE RunsAt(Val(PrimaryAt(ContentsOf(nd), 1)).description)

MetadataAt(nd) == IF IsNull(nd) THEN Null ELSE TextAt(Val(nd).metadata.description)

NextDetailsAt(nd) == IF IsNull(nd) THEN Null ELSE TextAt(Val(nd).videoDetails.shortDescription)

ContentAt(c) ==
  IF ~IsNull(SecondaryRuns(c)) THEN RunsAt(SecondaryRuns(c)) ELSE TextAt(Attributed(c))

ItemAt(item) == IF ~IsNull(item.header) THEN RunsAt(item.header) ELSE RunsAt(item.body)

PanelItemsOf(nd) ==
  IF IsNull(nd) \/ IsNull(Val(nd).engagementPanels) THEN {}
  ELSE LET panels == Val(Val(nd).engagementPanels) IN
       UNION { { <<i, j>> : j \in 1..Len(Val(panels[i].items)) } :
                 i \in { k \in 1..Len(panels) : ~IsNull(panels[k].items) } }

PanelItem(nd, ij) == Val(Val(Val(nd).engagementPanels)[ij[1]].items)[ij[2]]

NoDescriptionPopulated(pd, nd) ==
  /\ IsNull(ShortDescriptionAt(pd))
  /\ IsNull(SecondContentAt(nd))
  /\ IsNull(PrimaryInfoAt(nd))
  /\ IsNull(MetadataAt(nd))
  /\ IsNull(NextDetailsAt(nd))
  /\ \A i \in 1..Len(ContentsOf(nd)) : IsNull(ContentAt(ContentsOf(nd)[i]))
  /\ \A ij \in PanelItemsOf(nd) : IsNull(ItemAt(PanelItem(nd, ij)))

NoTitlePopulated(pd, nd) ==
  /\ IsNull(pd.videoDetails) \/ Val(pd.videoDetails).title = ""
  /\ LET primary == PrimaryAt(ContentsOf(nd), 1) IN
     \/ IsNull(primary)
     \/ IsNull(Val(primary).title)
     \/ Len(Val(Val(primary).title)) = 0
     \/ Val(Val(primary).title)[1] = ""
  /\ IsNull(nd) \/ (Val(nd).metadata.title = "" /\ Val(nd).videoDetails.title = "")

FirstHeld(S) == CHOOSE x \in S : \A y \in S : x[1] < y[1] \/ (x[1] = y[1] /\ x[2] <= y[2])

HighestPopulated(pd, nd) ==
  LET contents == { <<i, 1>> : i \in { k \in 1..Len(ContentsOf(nd)) :
                                          ~IsNull(ContentAt(ContentsOf(nd)[k])) } }
      items == { ij \in PanelItemsOf(nd) : ~IsNull(ItemAt(PanelItem(nd, ij))) } IN
  IF ~IsNull(ShortDescriptionAt(pd)) THEN ShortDescriptionAt(pd)
  ELSE IF ~IsNull(SecondContentAt(nd)) THEN SecondContentAt(nd)
  ELSE IF ~IsNull(PrimaryInfoAt(nd)) THEN PrimaryInfoAt(nd)
  ELSE IF ~IsNull(MetadataAt(nd)) THEN MetadataAt(nd)
  ELSE IF ~IsNull(NextDetailsAt(nd)) THEN NextDetailsAt(nd)
  ELSE IF contents # {} THEN ContentAt(ContentsOf(nd)[FirstHeld(contents)[1]])
  ELSE IF items # {} THEN ItemAt(PanelItem(nd, FirstHeld(items)))
  ELSE Null

C28_DescriptionFromHighestPopulated ==
  DetailsDone =>
    LET highest == HighestPopulated(pure.input.playerData, pure.input.nextData) IN
    pure.output.description =
      IF IsNull(highest) THEN "No description found" ELSE Val(highest)


(***************************************************************************)
(* C29                                                                     *)
(***************************************************************************)
TwiceDone == pure.fn = "twice" /\ pure.done

\* what the caller of getSubtitles sees: the cue list, or a failure
Seen(outcome) == [kind |-> outcome.kind, subtitles |-> outcome.subtitles]

\* a lookup of the key cache hit and a later lookup of the two calls did not
HitThenMiss(lookups) ==
  \E i \in DOMAIN lookups, j \in DOMAIN lookups : i < j /\ lookups[i] /\ ~lookups[j]

\* C29 as stated: two calls of getSubtitles with the same language against
\* an upstream that answers every request the same way give the same cue
\* list, whatever the key cache held before the first call.
C29_TwiceSameCues ==
  TwiceDone => Seen(pure.output.outcomes[1]) = Seen(pure.output.outcomes[2])

\* C29 amended: the two calls give the same cue list (or both fail) provided
\* no cached key expires between two key lookups of the calls, that is, no
\* lookup that hit the cache is followed by one that missed it.
C29_TwiceSameCuesWhileCached ==
  (TwiceDone /\ ~HitThenMiss(pure.output.lookups))
    => Seen(pure.output.outcomes[1]) = Seen(pure.output.outcomes[2])

\* the first call missed the cache and fetched a key, the second call found
\* that key in the cache, and both returned the same non-empty cue list
C29_Witness ==
  /\ TwiceDone
  /\ pure.output.lookups = <<FALSE, TRUE>>
  /\ cachedApiKey \in { Some(k) : k \in DynamicKeys }
  /\ pure.output.outcomes[1].kind = "returned"
  /\ Len(pure.output.outcomes[1].subtitles) > 0
  /\ pure.output.outcomes[2] = pure.output.outcomes[1]


(***************************************************************************)
(* C30                                                                     *)
(***************************************************************************)
\* the agent of the proxy the options name
ThroughProxy(request, options) ==
  /\ ~IsNull(request.agent)
  /\ Val(request.agent).host = options.proxyUrl
  /\ Val(request.agent).port = options.proxyPort

\* C30 as stated: when proxyUrl is non-empty and proxyPort is positive,
\* every outbound request of a getSubtitles or getVideoDetails call, the
\* watch-page request and the caption-payload request alike, goes through
\* the proxy.
C30_EveryRequestThroughProxy ==
  (/\ pure.fn = "proxy"
   /\ pure.input.options.proxyUrl # ""
   /\ pure.input.options.proxyPort > 0)
    => \A i \in DOMAIN pure.output.sent :
         ThroughProxy(pure.output.sent[i], pure.input.options)


(***************************************************************************)
(* C31                                                                     *)
(***************************************************************************)
\* DEBUG is unset, or holds neither "*" nor the namespace
NotAskedFor(env) ==
  \/ IsNull(env)
  \/ \A i \in 1..Len(Val(env)) : Val(env)[i] \notin {"*", namespace}

\* C31: with DEBUG unset, or containing neither "*" nor the namespace
\* youtube-caption-extractor, a call of getSubtitles or getVideoDetails
\* writes no log output, on any path, failures included.
C31_SilentUnlessEnabled ==
  (pure.fn = "log" /\ NotAskedFor(pure.input)) => pure.output = <<>>

\* a call failed with DEBUG set to something else, and nothing was written
C31_Witness ==
  /\ pure.fn = "log" /\ pure.input = Some(<<"app">>)
  /\ dual.pc = "done" /\ dual.result.kind = "threw"
  /\ Len(dual.sent) > 1
  /\ pure.output = <<>>


(***************************************************************************)
(* C32                                                                     *)
(***************************************************************************)
RouteAnswered == pure.fn = "route" /\ pure.output.pc = "answered"

RouteResponse == Val(pure.output.response)

\* C32: the route answers 400 with an error, without calling
\* getVideoDetails, when videoID is missing; 200 with the serialized result
\* when getVideoDetails returns; 500 with the thrown error's message,
\* unmodified, when it throws; and it calls getVideoDetails at most once.
C32_RouteStatuses ==
  pure.fn = "route" =>
    /\ pure.output.calls <= 1
    /\ IsNull(pure.input.videoID) => pure.output.calls = 0
    /\ (RouteAnswered /\ IsNull(pure.input.videoID)) =>
          /\ RouteResponse.status = 400
          /\ "error" \in DOMAIN RouteResponse.body
    /\ (RouteAnswered /\ pure.output.calls = 1 /\ dual.result.kind = "returned") =>
          RouteResponse = Json([videoDetails |-> [title |-> dual.result.title,
                                                  description |-> dual.result.description,
                                                  subtitles |-> dual.result.subtitles]], 200)
    /\ (RouteAnswered /\ pure.output.calls = 1 /\ dual.result.kind = "threw") =>
          RouteResponse = Json([error |-> dual.result.error.message], 500)

\* the route answered 500 with the message getVideoDetails threw
C32_Witness ==
  /\ RouteAnswered
  /\ pure.output.calls = 1
  /\ dual.result.kind = "threw"
  /\ dual.result.error.message # ""
  /\ RouteResponse.status = 500


(***************************************************************************)
(* C33                                                                     *)
(***************************************************************************)
\* an array of cues
IsCueArray(subtitles) ==
  /\ DOMAIN subtitles = 1..Len(subtitles)
  /\ \A i \in 1..Len(subtitles) : DOMAIN subtitles[i] = {"start", "dur", "text"}

\* the object has a title and a description (the empty string stands for a
\* property that was never assigned) and its subtitles are an array
IsVideoDetails(result) ==
  /\ result.title # ""
  /\ result.description # ""
  /\ IsCueArray(result.subtitles)

\* C33: every non-throwing return of getVideoDetails, on every path (no
\* tracks, no language match, captions found), is an object with a title,
\* a description and a subtitles property, and subtitles is an array.
C33_DetailsShape ==
  /\ (call.entry = "getVideoDetails" /\ call.pc = "done" /\ call.result.kind = "returned")
       => IsVideoDetails(call.result)
  /\ (dual.entry = "getVideoDetails" /\ dual.pc = "done" /\ dual.result.kind = "returned")
       => IsVideoDetails(dual.result)

\* getVideoDetails returned on the no-tracks path, with the sentinel title
C33_Witness ==
  /\ call.entry = "getVideoDetails" /\ call.pc = "done"
  /\ call.result.kind = "returned"
  /\ call.captionTracks = <<>>
  /\ call.result.title = "No title found"
  /\ call.result.subtitles = <<>>


(***************************************************************************)
(* C34                                                                     *)
(***************************************************************************)
\* C34: in one pass of fetchVideoData the client profiles are requested in
\* a fixed order chosen by the environment (WEB, ANDROID, IOS when
\* serverless; ANDROID, WEB, IOS otherwise), and a profile is requested
\* only after the previous one turned out insufficient or failed.
C34_ProfilesInFixedOrder ==
  LET order == IF isServerless THEN <<"WEB", "ANDROID", "IOS">>
               ELSE <<"ANDROID", "WEB", "IOS">> IN
  /\ Len(Log) <= Len(order)
  /\ \A i \in 1..Len(Log) : Log[i].client = order[i]
  /\ \A i \in 1..(Len(Log) - 1) : Log[i].class \in {"insufficient", "failed"}
  /\ InPass => /\ call.clientIdx = Len(Log) + 1
               /\ \A i \in 1..Len(Log) : Log[i].class \in {"insufficient", "failed"}

\* a serverless pass went through WEB (insufficient) and ANDROID (failed)
\* and is requesting IOS
C34_Witness ==
  /\ isServerless
  /\ call.pc = "player" /\ call.clientIdx = 3
  /\ Len(Log) = 2
  /\ Log[1].client = "WEB" /\ Log[1].class = "insufficient"
  /\ Log[2].client = "ANDROID" /\ Log[2].class = "failed"


(***************************************************************************)
(* C35                                                                     *)
(***************************************************************************)
\* the stage whose withRetry is waiting, by the position of the call
WaitingStage ==
  IF call.pc = "vwait" THEN "video"
  ELSE IF call.pc = "keywait" THEN "key"
  ELSE IF call.pc = "swait" THEN "subtitle"
  ELSE ""

\* C35: after the k-th failed attempt (1 <= k <= maxRetries) withRetry waits
\* 1000 * 1.5^(k-1) ms before attempt k+1 (1000, 1500, 2250), the waits are
\* strictly increasing, and there is no wait after the final failed attempt
\* or after a success.
C35_State ==
  LET waits == <<1000, 1500, 2250>> IN
  IF WaitingStage = "" THEN call.delay = 0
  ELSE LET k == call.attempt[WaitingStage] IN
       /\ k \in 1..maxRetries
       /\ call.delay = waits[k]
       /\ k > 1 => call.delay > waits[k - 1]
       /\ (IF WaitingStage = "key" THEN call.keyError ELSE call.lastError) # NoError

\* a failed attempt after which withRetry does not wait is the final one,
\* and the attempt that follows a wait is the next one
C35_Step ==
  /\ (call.pc = "subfetch" /\ call'.pc = "done" /\ call'.result.kind = "threw")
       => call.attempt.subtitle = maxRetries + 1
  /\ (call.pc = "swait" /\ call'.pc # "swait")
       => call'.pc = "subfetch" /\ call'.attempt.subtitle = call.attempt.subtitle + 1
  /\ (call.pc = "vwait" /\ call'.pc # "vwait")
       => call'.attempt.video = call.attempt.video + 1
  /\ (call.pc = "keywait" /\ call'.pc # "keywait")
       => call'.pc = "keyfetch" /\ call'.attempt.key = call.attempt.key + 1

C35_ExponentialBackoff == [](C35_State) /\ [][C35_Step]_vars

\* the third attempt of the video-data fetch failed and withRetry waits
\* 2250 ms before the fourth
C35_Witness ==
  /\ call.pc = "vwait"
  /\ call.attempt.video = 3
  /\ call.delay = 2250


(***************************************************************************)
(* C36                                                                     *)
(***************************************************************************)
\* a number of seconds, in milliseconds
Millis(sec) ==
  IF sec.negative THEN 0 - (sec.whole * 1000 + sec.thousandths)
  ELSE sec.whole * 1000 + sec.thousandths

\* the segments that have a renderer and a text that is not blank
Emitting(segments) ==
  { i \in 1..Len(segments) :
      /\ ~IsNull(segments[i].transcriptSegmentRenderer)
      /\ ~Blank(SegmentText(Val(segments[i].transcriptSegmentRenderer).snippet)) }

\* C36: every segment with a renderer, a non-blank text and integer startMs
\* and endMs gives a cue with start * 1000 = startMs and
\* dur * 1000 = endMs - startMs; a segment with a blank text or without a
\* renderer gives no cue.
C36_SecondsFromMilliseconds ==
  SegmentsDone =>
    LET emitting == Emitting(pure.input) IN
    /\ Len(pure.output) = Cardinality(emitting)
    /\ \A i \in emitting :
         LET renderer == Val(pure.input[i].transcriptSegmentRenderer)
             cue == pure.output[Cardinality({ j \in emitting : j <= i })] IN
         (~IsNull(renderer.startMs) /\ ~IsNull(renderer.endMs)) =>
            /\ Millis(cue.start) = Val(renderer.startMs)
            /\ Millis(cue.dur) = Val(renderer.endMs) - Val(renderer.startMs)

\* a blank segment gave nothing and the segment from 1230 ms to 2000 ms
\* gave the cue that starts at 1.23 s and lasts 0.77 s
C36_Witness ==
  /\ SegmentsDone
  /\ Len(pure.input) = 2 /\ Len(pure.output) = 1
  /\ Emitting(pure.input) = {2}
  /\ ~IsNull(pure.input[1].transcriptSegmentRenderer)
  /\ Val(pure.input[2].transcriptSegmentRenderer).startMs = Some(1230)
  /\ Val(pure.input[2].transcriptSegmentRenderer).endMs = Some(2000)
  /\ pure.output[1].start = [negative |-> FALSE, whole |-> 1, thousandths |-> 230]
  /\ pure.output[1].dur = [negative |-> FALSE, whole |-> 0, thousandths |-> 770]


(***************************************************************************)
(* C37                                                                     *)
(***************************************************************************)
InGetApiKey == call.pc \in {"apikey", "keyfetch", "keywait"}

\* C37: a failed credential fetch leaves the cache unchanged: no step of a
\* getApiKey call that ends with the hardcoded key writes cachedApiKey or
\* cacheTimestamp, the hardcoded key is never in the cache, and when it is
\* handed out the cache is still a miss, so the next call fetches again.
C37_Step ==
  /\ (InGetApiKey /\ call'.apiKey = Some(FALLBACK_INNERTUBE_API_KEY))
       => UNCHANGED <<cachedApiKey, cacheTimestamp>>
  /\ (cachedApiKey' # cachedApiKey \/ cacheTimestamp' # cacheTimestamp)
       => /\ call.pc = "keyfetch" /\ call'.pc = "player"
          /\ call'.apiKey = cachedApiKey'
          /\ call'.apiKey # Some(FALLBACK_INNERTUBE_API_KEY)

C37_State ==
  /\ cachedApiKey # Some(FALLBACK_INNERTUBE_API_KEY)
  /\ (call.pc = "player" /\ call.apiKey = Some(FALLBACK_INNERTUBE_API_KEY))
       => (IsNull(cachedApiKey) \/ now - cacheTimestamp >= 30 * 60 * 1000)

C37_FailedFetchLeavesCache == [](C37_State) /\ [][C37_Step]_vars

\* getApiKey handed out the hardcoded key while the cache holds the expired
\* key of an earlier fetch
C37_Witness ==
  /\ call.pc = "player"
  /\ call.apiKey = Some(FALLBACK_INNERTUBE_API_KEY)
  /\ call.keyError # NoError
  /\ cachedApiKey \in { Some(k) : k \in DynamicKeys }
  /\ cacheTimestamp = 0


(***************************************************************************)
(* C38                                                                     *)
(***************************************************************************)
\* call p writes the cache in this step
Writes(p) == keyCalls[p].pc = "store" /\ keyCalls'[p].pc = "done"

\* C38 as stated: with a monotonic clock, cacheTimestamp never decreases
\* over any interleaving of concurrent getDynamicApiKey calls, and the
\* timestamp stored with a key is never earlier than the moment that key's
\* fetch started.
C38_TimestampNeverDecreases ==
  [][/\ cacheTimestamp' >= cacheTimestamp
     /\ \A p \in Procs : Writes(p) => cacheTimestamp' >= keyCalls[p].now]_vars

\* C38 amended: the timestamp stored with a key is the moment the call that
\* fetched it began, never later than the clock; only a write changes it;
\* and it decreases only when a call that began earlier writes after a
\* call that began later.
C38_Step ==
  /\ \A p \in Procs :
       Writes(p) =>
         /\ cacheTimestamp' = keyCalls[p].now
         /\ cachedApiKey' = keyCalls[p].apiKey
         /\ cacheTimestamp' <= now'
         /\ cacheTimestamp' < cacheTimestamp =>
              \E q \in Procs \ {p} :
                 /\ keyCalls[q].stored
                 /\ keyCalls[q].now = cacheTimestamp
                 /\ keyCalls[q].now > keyCalls[p].now
  /\ cacheTimestamp' # cacheTimestamp => \E p \in Procs : Writes(p)

C38_TimestampIsWritersStart == [](cacheTimestamp <= now) /\ [][C38_Step]_vars

\* the timestamp went back: the cache holds the start of a call that began
\* before another call whose write came first
C38_Witness ==
  \E p \in Procs, q \in Procs :
     /\ keyCalls[p].stored /\ keyCalls[q].stored
     /\ keyCalls[p].now < keyCalls[q].now
     /\ cacheTimestamp = keyCalls[p].now
     /\ cachedApiKey = keyCalls[p].apiKey
     /\ keyCalls[p].apiKey # keyCalls[q].apiKey
     /\ now > cacheTimestamp


(***************************************************************************)
(* C39                                                                     *)
(***************************************************************************)
\* the attempts of one withRetry
Attempts == maxRetries + 1

\* an upper bound on the steps left in the key stage of one client profile
KeyLeft(f) ==
  IF f.pc = "apikey" THEN 2 * Attempts + 3
  ELSE IF f.pc = "keyfetch" THEN 2 * (Attempts - f.attempt.key) + 2
  ELSE IF f.pc = "keywait" THEN 2 * (Attempts - f.attempt.key) + 1
  ELSE 0

\* an upper bound on the steps left in the video-data withRetry: 64 for a
\* pass, 16 for a client profile
VideoLeft(f) ==
  IF f.pc = "vwait" THEN (Attempts - f.attempt.video) * 64 + 1
  ELSE IF f.pc \in {"apikey", "keyfetch", "keywait", "player"}
    THEN (Attempts - f.attempt.video) * 64 + 2 + (NClients - f.clientIdx) * 16 + KeyLeft(f) + 1
  ELSE 0

\* an upper bound on the steps left in the subtitle withRetry
SubtitleLeft(f) ==
  IF f.pc = "subfetch" THEN 2 * (Attempts - f.attempt.subtitle) + 2
  ELSE IF f.pc = "swait" THEN 2 * (Attempts - f.attempt.subtitle) + 1
  ELSE 0

\* an upper bound on the steps left in the call: getVideoDetails runs the
\* video-data fetch twice (phase 1, then phase 2), then the subtitle fetch
StepsLeft(f) ==
  LET subtitleFull == 2 * Attempts + 4
      videoFull == Attempts * 64 + 2 IN
  IF f.pc = "idle" THEN 2 * (videoFull + subtitleFull) + 1
  ELSE IF f.pc = "done" THEN 0
  ELSE IF f.pc \in {"subfetch", "swait"} THEN SubtitleLeft(f)
  ELSE (IF f.phase = 1 THEN videoFull + subtitleFull ELSE 0) + subtitleFull + VideoLeft(f)

\* C39: every call of getSubtitles or getVideoDetails eventually returns or
\* throws, provided every network request eventually responds, errors or
\* times out: the client-profile loop, the withRetry loops (the credential
\* retry inside each video-data attempt included) and the backoff waits are
\* finite.  A call that has not settled can always take a step, and every
\* step brings a bounded count of the steps left strictly down.
C39_State ==
  /\ StepsLeft(call) >= 0
  /\ call.pc # "done" => ENABLED Next

C39_Step == StepsLeft(call') < StepsLeft(call)

C39_EveryCallSettles == [](C39_State) /\ [][C39_Step]_vars

\* a call threw after the last attempt of the last withRetry it entered,
\* having waited before that attempt
C39_Witness ==
  /\ call.pc = "done"
  /\ call.result.kind = "threw"
  /\ call.result.error.context = "Subtitle fetch"
  /\ call.attempt.subtitle = maxRetries + 1

\* C40: within one getVideoDetails call of the multi-client variant the
\* title/description and the caption tracks are taken from one and the same
\* player response, obtained by one run of the video-data fetch: the response
\* the tracks are about to be extracted from is the one that gave the call
\* its title and description.
C40_OnePlayerResponse ==
  (call.entry = "getVideoDetails" /\ call.pc = "vdone" /\ call.phase = 2) =>
    LET vd == Val(call.playerData).videoDetails IN
    /\ call.title = (IF IsNull(vd) \/ Val(vd).title = "" THEN "No title found"
                     ELSE Val(vd).title)
    /\ call.description = (IF IsNull(vd) \/ Val(vd).shortDescription = ""
                           THEN "No description found" ELSE Val(vd).shortDescription)

====
